---- MODULE Spec2Model ----
(***************************************************************************)
(* Process subsystem of the YSOS kernel: process registry, ready queue,    *)
(* WaitPid waiters map, keyed semaphores, timer-tick switch, the process   *)
(* syscalls, the heap break and the process stacks (pkg/kernel/src/proc),  *)
(* and the user program pkg/app/philo.                                     *)
(***************************************************************************)
EXTENDS Integers, Sequences, FiniteSets, TLC

\* ---- bounds of the model ----
MaxPid == 3          \* pids 1..MaxPid can be allocated
MaxTicks == 1        \* ticks_passed stops counting at MaxTicks
MaxCount == 1        \* a semaphore count is never signalled above MaxCount
HEAP_PAGES == 2      \* pages of the heap region (0x100000 in heap.rs)
MaxFrames == 3       \* frames the allocator holds at the start
STACK_MAX_PAGES == 4  \* pages of one stack slot (0x100000 in stack.rs)
StackSlots == 16384  \* stack slots below STACK_MAX: STACK_MAX / STACK_MAX_SIZE in stack.rs
PHILO_NUM == 2       \* philosophers of app/philo (5 in philo/src/main.rs)

\* ---- program constants ----
KERNEL_PID == 1
SYS_WAITPID == 6
SYS_FORK == 16
SYS_SEM == 17
PAGE_SIZE == 4096
STACK_DEF_PAGE == 1
SERVER == 5

Pids == 1..MaxPid

\* app/philo: the program's main process is the first spawned process, the
\* philosophers are the processes it forks
PhiloMain == KERNEL_PID + 1
PhiloLast == PhiloMain + PHILO_NUM
Philos == (PhiloMain + 1)..PhiloLast
ProgPids == PhiloMain..PhiloLast
CHOPSTICKS_SEM == 0..(PHILO_NUM - 1)
PhiloKeys == CHOPSTICKS_SEM \cup {SERVER}
order(p) == p - PhiloMain - 1
LeftOf(p) == order(p)
RightOf(p) == (order(p) + 1) % PHILO_NUM
Keys == {1}
Rets == {0, 42}
InitVals == {0, 1}

VARIABLES
    processes,          \* ProcessManager.processes : pid -> ProcessInner
    ready_queue,        \* ProcessManager.ready_queue
    waiting_processes,  \* ProcessManager.waiting_processes : pid -> set of pids
    current_pid,        \* processor::get_pid()
    regs_rax,           \* rax of the register frame the interrupted code resumes with
    next_pid,           \* the ProcessId counter
    semaphores,         \* the SemaphoreSets : set id -> (key -> semaphore)
    halted,             \* the kernel panicked or spins forever
    heap_end,           \* Heap.end, as an offset from HEAP_START
    heap_mapped,        \* heap pages the page table maps, counted from HEAP_START
    free_frames,        \* frames the frame allocator can still hand out
    brk_arg,            \* argument of the last brk call
    brk_ret,            \* what the last brk call returned
    stack_segment,      \* pid -> ProcessData.stack_segment, a range of page numbers
    stack_mapped,       \* pid -> stack-region pages its page table maps
    stack_top,          \* pid -> context.stack_top(), the process's stack pointer
    pf_arg,             \* arguments of the last handle_page_fault call
    pf_ret,             \* what the last handle_page_fault call returned
    vs_range,           \* Stack.range of a proc/vm Stack, page numbers
    vs_usage,           \* Stack.usage
    vs_mapped,          \* pages mapped in the address space that Stack lives in
    vs_frames,          \* frames its frame allocator can still hand out
    vs_arg,             \* argument of the last Stack::handle_page_fault call
    vs_ret,             \* what the last Stack::handle_page_fault call returned
    pc,                 \* pid -> where its user program stands
    init_pid,           \* the pid whose first stack page is being initialised
    alloc_ret,          \* what ProcessInner::alloc_init_stack(init_pid) did
    init_ret,           \* what Stack::init(.., init_pid) did
    kpath,              \* the interrupt handler the CPU is in, None in user code
    kpos,               \* the handler's next operation
    held,               \* locks held, in the order they were acquired
    int_enabled,        \* the CPU's interrupt flag
    int_stack,          \* flags saved by the without_interrupts calls in progress
    preempted,          \* a timer interrupt arrived inside a handler
    kill_req,           \* arguments of the last ProcessManager::kill(pid, ret) request
    heap_cleaned,       \* the heap's owner exited and Heap::clean_up ran
    bolt                \* SpinLock.bolt of the lock the user processes share

procVars == <<processes, ready_queue, waiting_processes, current_pid, regs_rax,
              next_pid, semaphores, halted>>

heapVars == <<heap_end, heap_mapped, free_frames, brk_arg, brk_ret>>

\* the state of proc/vm and of the process stacks
stackVars == <<stack_segment, stack_mapped, stack_top>>

pfVars == <<pf_arg, pf_ret>>

vsVars == <<vs_range, vs_usage, vs_mapped, vs_frames, vs_arg, vs_ret>>

initVars == <<init_pid, alloc_ret, init_ret>>

kVars == <<kpath, kpos, held, int_enabled, int_stack, preempted>>

callVars == <<kill_req, heap_cleaned>>

vmVars == <<heapVars, stackVars, pfVars, vsVars, initVars, kVars, callVars>>

\* the state of the user programs
userVars == <<pc, bolt>>

vars == <<procVars, vmVars, userVars>>

\* Option<T> is a sequence of length 0 (None) or 1 (Some).
None == <<>>
Some(x) == <<x>>

\* ---- ProcessInner ----
\* a process made without the reference to its parent
NewInner_Orphan(parent, sems, kthread) ==
    [status |-> "Ready", exit_code |-> None, rax |-> 0, ticks_passed |-> 0,
     children |-> <<>>, parent |-> 0, page_table |-> TRUE,
     proc_data |-> TRUE, sems |-> sems, kthread |-> kthread]

\* kthread: the process runs kernel code in ring 0 and issues no syscalls
NewInner(parent, sems, kthread) ==
    [status |-> "Ready", exit_code |-> None, rax |-> 0, ticks_passed |-> 0,
     children |-> <<>>, parent |-> parent, page_table |-> TRUE,
     proc_data |-> TRUE, sems |-> sems, kthread |-> kthread]

\* ticks_passed is bookkeeping only (shown by ps, never read by the scheduler)
tick(inner) ==
    [inner EXCEPT !.ticks_passed = IF @ < MaxTicks THEN @ + 1 ELSE @]

pause(inner) == [inner EXCEPT !.status = "Ready"]

resume(inner) == [inner EXCEPT !.status = "Running"]

block(inner) == [inner EXCEPT !.status = "Blocked"]

is_ready(inner) == inner.status = "Ready"

\* ProcessInner::restore: the status part; switch_next hands over the saved rax
\* and panics on a missing page table
restore_NoResume(inner) == inner

restore(inner) == resume(inner)

save_NoPause(inner, rax) ==
    IF inner.status # "Dead" THEN [inner EXCEPT !.rax = rax] ELSE inner

save(inner, rax) ==
    IF inner.status # "Dead" THEN pause([inner EXCEPT !.rax = rax]) ELSE inner

InnerKill(inner, ret) ==
    [inner EXCEPT !.exit_code = Some(ret), !.status = "Dead", !.page_table = FALSE]

\* ---- ProcessManager ----
push_ready_Front(q, pid) == <<pid>> \o q

push_ready(q, pid) == Append(q, pid)

save_current(P, rax) ==
    [P EXCEPT ![current_pid] = save(tick(@), rax)]

block_proc(P, pid) == [P EXCEPT ![pid] = block(@)]

add_waiting_Lost(W, pid) ==
    IF pid \in DOMAIN W THEN W ELSE W @@ (pid :> {})

add_waiting(W, pid) ==
    IF pid \in DOMAIN W
    THEN [W EXCEPT ![pid] = @ \cup {current_pid}]
    ELSE W @@ (pid :> {current_pid})

is_proc_alive(P, pid) ==
    IF pid \in DOMAIN P THEN P[pid].status # "Dead" ELSE FALSE

kill_Again(P, pid, ret) ==
    IF pid \notin DOMAIN P THEN P
    ELSE [P EXCEPT ![pid] = InnerKill(@, ret)]

kill(P, pid, ret) ==
    IF pid \notin DOMAIN P THEN P
    ELSE IF P[pid].status = "Dead" THEN P
    ELSE [P EXCEPT ![pid] = InnerKill(@, ret)]

\* the pop / re-push loop of switch_next: after Len(q) re-pushes the queue is
\* back in its first arrangement, so the loop never ends
RECURSIVE SkipNotReady(_, _, _)
SkipNotReady(P, q, fuel) ==
    IF is_ready(P[Head(q)]) THEN [found |-> TRUE, queue |-> q]
    ELSE IF fuel = 0 THEN [found |-> FALSE, queue |-> q]
    ELSE SkipNotReady(P, push_ready(Tail(q), Head(q)), fuel - 1)

\* one pop without the skip loop: a head that is not Ready is restored anyway,
\* which panics on the page table a Dead process no longer has
switch_next_NoSkip(P, q) ==
    IF q = <<>>
    THEN [procs |-> P, queue |-> q, cur |-> current_pid, rax |-> regs_rax, halt |-> TRUE]
    ELSE LET nextpid == Head(q)
         IN IF ~P[nextpid].page_table
            THEN [procs |-> [P EXCEPT ![nextpid] = restore(@)], queue |-> Tail(q),
                  cur |-> current_pid, rax |-> P[nextpid].rax, halt |-> TRUE]
            ELSE [procs |-> [P EXCEPT ![nextpid] = restore(@)], queue |-> Tail(q),
                  cur |-> nextpid, rax |-> P[nextpid].rax, halt |-> FALSE]

\* ProcessManager::switch_next
switch_next(P, q) ==
    IF q = <<>>
    THEN [procs |-> P, queue |-> q, cur |-> current_pid, rax |-> regs_rax, halt |-> TRUE]
    ELSE LET s == SkipNotReady(P, q, Len(q))
             nextpid == Head(s.queue)
         IN IF ~s.found
            THEN [procs |-> P, queue |-> s.queue, cur |-> current_pid,
                  rax |-> regs_rax, halt |-> TRUE]
            ELSE IF ~P[nextpid].page_table
            THEN [procs |-> [P EXCEPT ![nextpid] = restore(@)], queue |-> Tail(s.queue),
                  cur |-> current_pid, rax |-> P[nextpid].rax, halt |-> TRUE]
            ELSE [procs |-> [P EXCEPT ![nextpid] = restore(@)], queue |-> Tail(s.queue),
                  cur |-> nextpid, rax |-> P[nextpid].rax, halt |-> FALSE]

Switched(r) ==
    /\ processes' = r.procs
    /\ ready_queue' = r.queue
    /\ current_pid' = r.cur
    /\ regs_rax' = r.rax
    /\ halted' = r.halt

wake_up_Front(st, pid) ==
    [procs |-> [st.procs EXCEPT ![pid] = pause(@)], queue |-> <<pid>> \o st.queue]

wake_up(st, pid) ==
    [procs |-> [st.procs EXCEPT ![pid] = pause(@)], queue |-> push_ready(st.queue, pid)]

RECURSIVE SortedSeq(_)
SortedSeq(S) ==
    IF S = {} THEN <<>>
    ELSE LET m == CHOOSE x \in S : \A y \in S : x <= y
         IN <<m>> \o SortedSeq(S \ {m})

RECURSIVE WakeAll_NoRet(_, _, _)
WakeAll_NoRet(st, pids, ret) ==
    IF pids = <<>> THEN st
    ELSE WakeAll_NoRet(wake_up(st, Head(pids)), Tail(pids), ret)

RECURSIVE WakeAll(_, _, _)
WakeAll(st, pids, ret) ==
    IF pids = <<>> THEN st
    ELSE WakeAll(wake_up([st EXCEPT !.procs[Head(pids)].rax = ret], Head(pids)),
                 Tail(pids), ret)

\* ---- Heap (proc/vm/heap.rs) ----
\* Addresses of the heap are offsets from HEAP_START, which is page aligned;
\* a heap page is numbered by its distance from the page of HEAP_START.
base == 0
HEAP_SIZE == HEAP_PAGES * PAGE_SIZE
HEAP_END == HEAP_SIZE - 8

\* Page::containing_address, as a page number
PageOf(addr) == addr \div PAGE_SIZE

\* elf::map_pages: one frame is allocated and mapped per page, in ascending
\* order; the first failure ends the call and keeps what was mapped before it
RECURSIVE map_pages(_, _, _, _)
map_pages(mapped, frames, page, count) ==
    IF count = 0 THEN [ok |-> TRUE, mapped |-> mapped, frames |-> frames]
    ELSE IF frames = 0 THEN [ok |-> FALSE, mapped |-> mapped, frames |-> frames]
    ELSE IF page \in mapped THEN [ok |-> FALSE, mapped |-> mapped, frames |-> frames - 1]
    ELSE map_pages(mapped \cup {page}, frames - 1, page + 1, count - 1)

\* elf::unmap_pages with do_dealloc: each page is unmapped and its frame freed;
\* a page that is not mapped ends the call with an error
RECURSIVE unmap_pages(_, _, _, _)
unmap_pages(mapped, frames, page, count) ==
    IF count = 0 THEN [ok |-> TRUE, mapped |-> mapped, frames |-> frames]
    ELSE IF page \notin mapped THEN [ok |-> FALSE, mapped |-> mapped, frames |-> frames]
    ELSE unmap_pages(mapped \ {page}, frames + 1, page + 1, count - 1)

\* Heap::memory_usage
memory_usage(end) == end - base

\* Heap::clean_up: [ok, end, mapped, frames]
clean_up(end, mapped, frames) ==
    IF memory_usage(end) = 0
    THEN [ok |-> TRUE, end |-> end, mapped |-> mapped, frames |-> frames]
    ELSE LET origin_end == end
             pages == PageOf(origin_end) - PageOf(base)
             u == unmap_pages(mapped, frames, PageOf(base), pages)
         IN [ok |-> u.ok, end |-> base, mapped |-> u.mapped, frames |-> u.frames]

\* the grow branch with the end stored whether or not the pages were mapped
brk_grow_EndFirst(new_end, end, m) ==
    [ret |-> IF m.ok THEN Some(new_end) ELSE None, end |-> new_end,
     mapped |-> m.mapped, frames |-> m.frames]

\* Heap::brk, the grow branch after elf::map_pages returned m
brk_grow(new_end, end, m) ==
    [ret |-> IF m.ok THEN Some(new_end) ELSE None,
     end |-> IF m.ok THEN new_end ELSE end,
     mapped |-> m.mapped, frames |-> m.frames]

\* Heap::brk: [ret, end, mapped, frames]
brk(addr, end, mapped, frames) ==
    LET now_end == end
        upper_bound == ((now_end + 8) \div PAGE_SIZE) * PAGE_SIZE
        same == [ret |-> None, end |-> end, mapped |-> mapped, frames |-> frames]
    IN IF addr = None THEN [same EXCEPT !.ret = Some(now_end)]
       ELSE LET new_end == addr[1]
                new_upper_bound == (PageOf(new_end) + 1) * PAGE_SIZE
            IN IF ~(new_end >= base /\ new_end <= HEAP_END) THEN same
               ELSE IF new_end = base
               THEN LET c == clean_up(end, mapped, frames)
                    IN [ret |-> IF c.ok THEN Some(base) ELSE None, end |-> c.end,
                        mapped |-> c.mapped, frames |-> c.frames]
               ELSE IF new_upper_bound = upper_bound
               THEN [same EXCEPT !.ret = Some(now_end)]
               ELSE IF new_upper_bound > upper_bound
               THEN LET pages == (new_upper_bound - upper_bound) \div PAGE_SIZE
                        m == map_pages(mapped, frames, PageOf(upper_bound), pages)
                    IN brk_grow(new_end, end, m)
               ELSE LET pages == (upper_bound - new_upper_bound) \div PAGE_SIZE
                        u == unmap_pages(mapped, frames, PageOf(new_upper_bound), pages)
                    IN [ret |-> IF u.ok THEN Some(new_end) ELSE None,
                        end |-> IF u.ok THEN new_end ELSE end,
                        mapped |-> u.mapped, frames |-> u.frames]

wake_waiting(P, q, W, ret) ==
    IF current_pid \in DOMAIN W
    THEN LET st == WakeAll([procs |-> P, queue |-> q], SortedSeq(W[current_pid]), ret)
         IN [procs |-> st.procs, queue |-> st.queue,
             waiting |-> [p \in DOMAIN W \ {current_pid} |-> W[p]]]
    ELSE [procs |-> P, queue |-> q, waiting |-> W]

\* ---- Stack (proc/vm/stack.rs, proc/process.rs) ----
\* STACK_MAX is 0x4000_0000_0000 = 16384 * STACK_MAX_SIZE in stack.rs
STACK_MAX_SIZE == STACK_MAX_PAGES * PAGE_SIZE
STACK_MAX == StackSlots * STACK_MAX_SIZE
STACK_DEF_SIZE == STACK_DEF_PAGE * PAGE_SIZE
STACK_INIT_TOP == STACK_MAX - 8

\* addr & STACK_START_MASK
StackStart(addr) == (addr \div STACK_MAX_SIZE) * STACK_MAX_SIZE

start_address(page) == page * PAGE_SIZE

\* frames handed to the stack mappings of proc/process.rs, which are taken
\* not to run out
StackFrames == 2 * STACK_MAX_PAGES

set_stack(bottom, page_num) ==
    [start |-> PageOf(bottom), end |-> PageOf(bottom) + page_num]

is_on_stack(range, addr) ==
    StackStart(addr) = StackStart(start_address(range.start))

\* the bottom of the initial stack of pid
SlotInitBot(pid) == STACK_MAX - (pid - 1) * STACK_MAX_SIZE - STACK_DEF_SIZE

\* ProcessInner::alloc_init_stack
alloc_init_stack(mapped, pid) ==
    LET stack_bottom == SlotInitBot(pid)
        m == map_pages(mapped, StackFrames, PageOf(stack_bottom), STACK_DEF_PAGE)
    IN [ok |-> m.ok, mapped |-> m.mapped, range |-> set_stack(stack_bottom, STACK_DEF_PAGE),
        top |-> stack_bottom + STACK_DEF_SIZE - 8]

\* ProcessInner::init_child_stack: the loop that probes one slot further down
\* while map_range fails; it ends in a panic when the address runs below 0
RECURSIVE ProbeChildStack(_, _, _)
ProbeChildStack(mapped, bottom, count) ==
    LET m == map_pages(mapped, StackFrames, PageOf(bottom), count)
    IN IF m.ok \/ bottom - STACK_MAX_SIZE < 0
       THEN [ok |-> m.ok, mapped |-> m.mapped, bottom |-> bottom]
       ELSE ProbeChildStack(m.mapped, bottom - STACK_MAX_SIZE, count)

init_child_stack(parent_pid, children_len, parent_stack, child_mapped) ==
    LET count == parent_pid + children_len
        child_stack_count == parent_stack.end - parent_stack.start
        r == ProbeChildStack(child_mapped, SlotInitBot(count), child_stack_count)
    IN [ok |-> r.ok, mapped |-> r.mapped, bottom |-> r.bottom,
        range |-> set_stack(r.bottom, child_stack_count)]

\* ProcessInner::fork: (self.context.stack_top() & 0xFFFFFFFF) | child_stack_bottom & !(0xFFFFFFFF) ;
\* 0xFFFFFFFF is STACK_MAX_SIZE - 1
child_stack_top(parent_top, child_stack_bottom) ==
    (parent_top % STACK_MAX_SIZE) + StackStart(child_stack_bottom)

\* Process::enlarge_stack ; Page - Page panics when it would be negative, and
\* map_range(..).expect("") panics when the mapping fails
enlarge_stack(pid, range, mapped, addr) ==
    IF PageOf(addr) > range.start
    THEN [ok |-> FALSE, mapped |-> mapped, range |-> range]
    ELSE LET new_page_num == range.start - PageOf(addr)
             now_page_num == range.end - range.start
             stack_bottom == STACK_MAX - (pid - 1) * STACK_MAX_SIZE
                             - (new_page_num + now_page_num) * PAGE_SIZE
             m == map_pages(mapped, StackFrames, PageOf(stack_bottom), new_page_num)
         IN [ok |-> m.ok, mapped |-> m.mapped,
             range |-> IF m.ok THEN set_stack(stack_bottom, now_page_num + new_page_num)
                       ELSE range]

\* ProcessInner::kill: unmap_range(stack.start, stack.end), then the page table is dropped
StackKill(pid) ==
    IF is_proc_alive(processes, pid) /\ pid \in DOMAIN stack_segment
    THEN /\ stack_mapped' = [stack_mapped EXCEPT ![pid] =
                                @ \ (stack_segment[pid].start..(stack_segment[pid].end - 1))]
         /\ UNCHANGED <<stack_segment, stack_top>>
    ELSE UNCHANGED stackVars

InitState ==
    /\ processes = (KERNEL_PID :> resume(NewInner(0, KERNEL_PID, TRUE)))
    /\ ready_queue = <<>>
    /\ waiting_processes = <<>>
    /\ current_pid = KERNEL_PID
    /\ regs_rax = 0
    /\ next_pid = 2
    /\ semaphores = (KERNEL_PID :> <<>>)
    /\ halted = FALSE
    /\ heap_end = base
    /\ heap_mapped = {}
    /\ free_frames = MaxFrames
    /\ brk_arg = None
    /\ brk_ret = None
    /\ stack_segment = <<>>
    /\ stack_mapped = <<>>
    /\ stack_top = <<>>
    /\ pf_arg = None
    /\ pf_ret = None
    /\ vs_range = [start |-> PageOf(STACK_INIT_TOP), end |-> PageOf(STACK_INIT_TOP)]
    /\ vs_usage = 0
    /\ vs_mapped = {}
    /\ vs_frames = MaxFrames
    /\ vs_arg = None
    /\ vs_ret = None
    /\ pc = [p \in Pids \cup ProgPids |-> "out"]
    /\ bolt = FALSE
    /\ alloc_ret = None
    /\ init_ret = None
    /\ kpath = None
    /\ kpos = 1
    /\ held = <<>>
    /\ int_enabled = TRUE
    /\ int_stack = <<>>
    /\ preempted = FALSE
    /\ kill_req = None
    /\ heap_cleaned = FALSE

Init == InitState /\ init_pid = None

\* a user process is running in ring 3 and can raise the syscall interrupt
UserRunning ==
    /\ ~halted
    /\ ~processes[current_pid].kthread
    /\ processes[current_pid].status = "Running"

\* a kernel thread other than the kernel's main thread is running
KThreadRunning ==
    /\ ~halted
    /\ processes[current_pid].kthread
    /\ current_pid # KERNEL_PID
    /\ processes[current_pid].status = "Running"

\* switch with the context switch left out
Tick_KeepCurrent ==
    /\ UNCHANGED <<vmVars, userVars>>
    /\ ~halted
    /\ processes' = [processes EXCEPT ![current_pid] = tick(@)]
    /\ UNCHANGED <<ready_queue, waiting_processes, current_pid, regs_rax, next_pid,
                   semaphores, halted>>

\* clock interrupt -> proc::switch
Tick ==
    /\ UNCHANGED <<vmVars, userVars>>
    /\ ~halted
    /\ Switched(switch_next(save_current(processes, regs_rax),
                            push_ready(ready_queue, current_pid)))
    /\ UNCHANGED <<waiting_processes, next_pid, semaphores>>

\* ---- SemaphoreSet (proc/sync.rs) ----
\* each operation yields the result tag, the woken or blocked pid and the new set
SemInsert(set, key, value) ==
    IF key \in DOMAIN set THEN [ok |-> FALSE, set |-> set]
    ELSE [ok |-> TRUE, set |-> set @@ (key :> [count |-> value, waiters |-> <<>>])]

SemRemoveKey(set, key) ==
    IF key \notin DOMAIN set THEN [ok |-> FALSE, set |-> set]
    ELSE IF set[key].waiters # <<>> THEN [ok |-> FALSE, set |-> set]
    ELSE [ok |-> TRUE, set |-> [k \in DOMAIN set \ {key} |-> set[k]]]

SemWaitKey(set, key, pid) ==
    IF key \notin DOMAIN set THEN [res |-> "NotExist", pid |-> 0, set |-> set]
    ELSE IF set[key].count - 1 >= 0
    THEN [res |-> "Ok", pid |-> 0, set |-> [set EXCEPT ![key].count = @ - 1]]
    ELSE [res |-> "Block", pid |-> pid,
          set |-> [set EXCEPT ![key].count = @ - 1, ![key].waiters = Append(@, pid)]]

SemSignalKey(set, key) ==
    IF key \notin DOMAIN set THEN [res |-> "NotExist", pid |-> 0, set |-> set]
    ELSE IF set[key].count + 1 <= 0 /\ set[key].waiters # <<>>
    THEN [res |-> "WakeUp", pid |-> Head(set[key].waiters),
          set |-> [set EXCEPT ![key].count = @ + 1, ![key].waiters = Tail(@)]]
    ELSE [res |-> "Ok", pid |-> 0, set |-> [set EXCEPT ![key].count = @ + 1]]

CurSems == processes[current_pid].sems

\* ---- syscalls (interrupt/syscall, proc/mod.rs) ----
\* Syscall::Spawn -> proc::spawn -> elf_spawn -> ProcessManager::spawn ;
\* the kernel process calls proc::spawn directly
Spawn(valid) ==
    /\ UNCHANGED <<heapVars, pfVars, vsVars, userVars, initVars, kVars, callVars>>
    /\ ~halted
    /\ processes[current_pid].status = "Running"
    /\ next_pid <= MaxPid
    /\ IF ~valid \/ ~processes[KERNEL_PID].page_table
       THEN /\ halted' = TRUE
            /\ UNCHANGED <<processes, ready_queue, waiting_processes, current_pid,
                           regs_rax, next_pid, semaphores, stackVars, callVars>>
       ELSE /\ processes' = processes @@ (next_pid :> pause(NewInner(current_pid, next_pid, FALSE)))
            /\ LET st == alloc_init_stack({}, next_pid)
               IN /\ stack_segment' = stack_segment @@ (next_pid :> st.range)
                  /\ stack_mapped' = stack_mapped @@ (next_pid :> st.mapped)
                  /\ stack_top' = stack_top @@ (next_pid :> st.top)
            /\ ready_queue' = push_ready(ready_queue, next_pid)
            /\ semaphores' = semaphores @@ (next_pid :> <<>>)
            /\ next_pid' = next_pid + 1
            /\ regs_rax' = IF current_pid = KERNEL_PID THEN regs_rax ELSE next_pid
            /\ UNCHANGED <<waiting_processes, current_pid, halted>>

\* the child gets a semaphore set that is not its parent's
InnerFork_OwnSems(inner, parent) ==
    [status |-> "Ready", exit_code |-> None, rax |-> 0, ticks_passed |-> 0,
     children |-> <<>>, parent |-> parent, page_table |-> TRUE,
     proc_data |-> TRUE, sems |-> KERNEL_PID, kthread |-> inner.kthread]

\* ProcessInner::fork
InnerFork_KeepRax(inner, parent) ==
    [status |-> "Ready", exit_code |-> None, rax |-> inner.rax, ticks_passed |-> 0,
     children |-> <<>>, parent |-> parent, page_table |-> TRUE,
     proc_data |-> TRUE, sems |-> inner.sems, kthread |-> inner.kthread]

InnerFork(inner, parent) ==
    [status |-> "Ready", exit_code |-> None, rax |-> 0, ticks_passed |-> 0,
     children |-> <<>>, parent |-> parent, page_table |-> TRUE,
     proc_data |-> TRUE, sems |-> inner.sems, kthread |-> inner.kthread]

\* the child registered under its parent's pid
ManagerFork_SamePid(P, child_pid) ==
    [P EXCEPT ![current_pid] = pause(InnerFork(P[current_pid], current_pid))]

\* Process::fork + ProcessManager::fork
ManagerFork(P, child_pid) ==
    LET child == pause(InnerFork(P[current_pid], current_pid))
        parent == [P[current_pid] EXCEPT !.children = Append(@, child_pid),
                                         !.rax = child_pid]
    IN [P EXCEPT ![current_pid] = parent] @@ (child_pid :> child)

ForkTo_NoSwitch(limit) ==
    /\ UNCHANGED <<heapVars, pfVars, vsVars, userVars, initVars, kVars, callVars>>
    /\ UserRunning
    /\ next_pid <= limit
    /\ LET st == init_child_stack(current_pid, Len(processes[current_pid].children),
                                  stack_segment[current_pid], stack_mapped[current_pid])
       IN IF st.ok
          THEN /\ stack_segment' = stack_segment @@ (next_pid :> st.range)
               /\ stack_mapped' = stack_mapped @@ (next_pid :> st.mapped)
               /\ stack_top' = stack_top @@
                      (next_pid :> child_stack_top(stack_top[current_pid], st.bottom))
               /\ Switched([procs |-> ManagerFork(processes, next_pid),
                             queue |-> push_ready(ready_queue, next_pid),
                             cur |-> current_pid, rax |-> next_pid, halt |-> FALSE])
               /\ next_pid' = next_pid + 1
          ELSE /\ halted' = TRUE
               /\ UNCHANGED <<processes, ready_queue, current_pid, regs_rax, next_pid,
                              stackVars, callVars>>
    /\ UNCHANGED <<waiting_processes, semaphores>>

\* Syscall::Fork -> proc::fork
ForkTo(limit) ==
    /\ UNCHANGED <<heapVars, pfVars, vsVars, userVars, initVars, kVars, callVars>>
    /\ UserRunning
    /\ next_pid <= limit
    /\ LET st == init_child_stack(current_pid, Len(processes[current_pid].children),
                                  stack_segment[current_pid], stack_mapped[current_pid])
       IN IF st.ok
          THEN /\ stack_segment' = stack_segment @@ (next_pid :> st.range)
               /\ stack_mapped' = stack_mapped @@ (next_pid :> st.mapped)
               /\ stack_top' = stack_top @@
                      (next_pid :> child_stack_top(stack_top[current_pid], st.bottom))
               /\ LET P1 == save_current(processes, SYS_FORK)
                      P2 == ManagerFork(P1, next_pid)
                      q1 == push_ready(push_ready(ready_queue, next_pid), current_pid)
                  IN Switched(switch_next(P2, q1))
               /\ next_pid' = next_pid + 1
          ELSE /\ halted' = TRUE
               /\ UNCHANGED <<processes, ready_queue, current_pid, regs_rax, next_pid,
                              stackVars, callVars>>
    /\ UNCHANGED <<waiting_processes, semaphores>>

Fork == ForkTo(MaxPid)

\* Syscall::Exit -> proc::exit
Exit(ret) ==
    /\ UNCHANGED <<heapVars, pfVars, vsVars, userVars, initVars, kVars, callVars>>
    /\ StackKill(current_pid)
    /\ UserRunning
    /\ LET w == wake_waiting(processes, ready_queue, waiting_processes, ret)
           P1 == kill(w.procs, current_pid, ret)
       IN /\ Switched(switch_next(P1, w.queue))
          /\ waiting_processes' = w.waiting
    /\ UNCHANGED <<next_pid, semaphores>>

get_exit_code_Zero(P, pid) == Some(0)

\* ProcessManager::get_exit_code
get_exit_code(P, pid) == P[pid].exit_code

\* Syscall::WaitPid -> proc::wait_pid
WaitPid(pid) ==
    /\ UNCHANGED <<vmVars, userVars>>
    /\ UserRunning
    /\ IF is_proc_alive(processes, pid)
       THEN /\ LET P1 == block_proc(save_current(processes, SYS_WAITPID), current_pid)
               IN Switched(switch_next(P1, ready_queue))
            /\ waiting_processes' = add_waiting(waiting_processes, pid)
            /\ UNCHANGED <<next_pid, semaphores>>
       ELSE IF pid \notin DOMAIN processes
       THEN /\ halted' = TRUE
            /\ regs_rax' = SYS_WAITPID
            /\ UNCHANGED <<processes, ready_queue, waiting_processes, current_pid,
                           next_pid, semaphores>>
       ELSE /\ regs_rax' = get_exit_code(processes, pid)[1]
            /\ UNCHANGED <<processes, ready_queue, waiting_processes, current_pid,
                           next_pid, semaphores, halted>>

\* Syscall::Sem op 0 -> proc::new_sem
SemNew(key, value) ==
    /\ UNCHANGED <<vmVars, userVars>>
    /\ UserRunning
    /\ LET r == SemInsert(semaphores[CurSems], key, value)
       IN /\ semaphores' = [semaphores EXCEPT ![CurSems] = r.set]
          /\ regs_rax' = IF r.ok THEN 0 ELSE 1
    /\ UNCHANGED <<processes, ready_queue, waiting_processes, current_pid, next_pid, halted>>

\* Syscall::Sem op 1 -> proc::remove_sem
SemRemove(key) ==
    /\ UNCHANGED <<vmVars, userVars>>
    /\ UserRunning
    /\ LET r == SemRemoveKey(semaphores[CurSems], key)
       IN /\ semaphores' = [semaphores EXCEPT ![CurSems] = r.set]
          /\ regs_rax' = IF r.ok THEN 0 ELSE 1
    /\ UNCHANGED <<processes, ready_queue, waiting_processes, current_pid, next_pid, halted>>

\* sem_wait that returns to the caller when the semaphore says Block
SemWait_NoBlock(key) ==
    /\ UNCHANGED vmVars
    /\ UserRunning
    /\ LET r == SemWaitKey(semaphores[CurSems], key, current_pid)
       IN /\ semaphores' = [semaphores EXCEPT ![CurSems] = r.set]
          /\ regs_rax' = IF r.res = "NotExist" THEN 1 ELSE 0
    /\ UNCHANGED <<processes, ready_queue, current_pid, halted, waiting_processes, next_pid>>

\* Syscall::Sem op 3 -> proc::sem_wait
SemWait(key) ==
    /\ UNCHANGED vmVars
    /\ UserRunning
    /\ LET r == SemWaitKey(semaphores[CurSems], key, current_pid)
       IN /\ semaphores' = [semaphores EXCEPT ![CurSems] = r.set]
          /\ IF r.res = "Block"
             THEN LET P1 == block_proc(save_current(processes, SYS_SEM), current_pid)
                  IN Switched(switch_next(P1, ready_queue))
             ELSE /\ regs_rax' = IF r.res = "Ok" THEN 0 ELSE 1
                  /\ UNCHANGED <<processes, ready_queue, current_pid, halted>>
    /\ UNCHANGED <<waiting_processes, next_pid>>

\* sem_signal that reports success for a key that does not exist
SemSignal_NotExistOk(key) ==
    /\ UNCHANGED vmVars
    /\ UserRunning
    /\ key \in DOMAIN semaphores[CurSems] => semaphores[CurSems][key].count < MaxCount
    /\ LET r == SemSignalKey(semaphores[CurSems], key)
       IN /\ semaphores' = [semaphores EXCEPT ![CurSems] = r.set]
          /\ IF r.res = "WakeUp"
             THEN LET st == wake_up([procs |-> processes, queue |-> ready_queue], r.pid)
                  IN /\ processes' = st.procs
                     /\ ready_queue' = st.queue
                     /\ regs_rax' = SYS_SEM
             ELSE /\ regs_rax' = 0
                  /\ UNCHANGED <<processes, ready_queue>>
    /\ UNCHANGED <<waiting_processes, current_pid, next_pid, halted>>

\* Syscall::Sem op 2 -> proc::sem_signal
SemSignal(key) ==
    /\ UNCHANGED vmVars
    /\ UserRunning
    /\ key \in DOMAIN semaphores[CurSems] => semaphores[CurSems][key].count < MaxCount
    /\ LET r == SemSignalKey(semaphores[CurSems], key)
       IN /\ semaphores' = [semaphores EXCEPT ![CurSems] = r.set]
          /\ IF r.res = "WakeUp"
             THEN LET st == wake_up([procs |-> processes, queue |-> ready_queue], r.pid)
                  IN /\ processes' = st.procs
                     /\ ready_queue' = st.queue
                     /\ regs_rax' = SYS_SEM
             ELSE /\ regs_rax' = IF r.res = "Ok" THEN 0 ELSE 1
                  /\ UNCHANGED <<processes, ready_queue>>
    /\ UNCHANGED <<waiting_processes, current_pid, next_pid, halted>>

\* spawn_kernel_thread, called by the kernel's main thread (utils/mod.rs)
SpawnKernelThread ==
    /\ UNCHANGED <<vmVars, userVars>>
    /\ ~halted
    /\ current_pid = KERNEL_PID
    /\ processes[current_pid].status = "Running"
    /\ next_pid <= MaxPid
    /\ processes' = processes @@ (next_pid :> pause(NewInner(KERNEL_PID, next_pid, TRUE)))
    /\ ready_queue' = push_ready(ready_queue, next_pid)
    /\ semaphores' = semaphores @@ (next_pid :> <<>>)
    /\ next_pid' = next_pid + 1
    /\ UNCHANGED <<waiting_processes, current_pid, regs_rax, halted>>

\* proc::process_exit, called by a kernel thread: kill_current, then hlt
ProcessExit(ret) ==
    /\ UNCHANGED <<heapVars, pfVars, vsVars, userVars, initVars, kVars, callVars>>
    /\ StackKill(current_pid)
    /\ KThreadRunning
    /\ processes' = kill(processes, current_pid, ret)
    /\ UNCHANGED <<ready_queue, waiting_processes, current_pid, regs_rax, next_pid,
                   semaphores, halted>>

\* ProcessManager::kill applied to any pid
Kill(pid, ret) ==
    /\ UNCHANGED <<heapVars, pfVars, vsVars, userVars, initVars, kVars>>
    /\ kill_req' = Some(<<pid, ret>>)
    /\ UNCHANGED heap_cleaned
    /\ StackKill(pid)
    /\ ~halted
    /\ processes' = kill(processes, pid, ret)
    /\ UNCHANGED <<ready_queue, waiting_processes, current_pid, regs_rax, next_pid,
                   semaphores, halted>>

Syscalls ==
    \/ \E valid \in BOOLEAN : Spawn(valid)
    \/ Fork
    \/ \E ret \in Rets : Exit(ret)
    \/ \E pid \in Pids : WaitPid(pid)

\* Timer ticks and the process syscalls.
Next == Tick \/ Syscalls

Spec == Init /\ [][Next]_vars

\* The first spawn, made by the kernel's main thread.
BootSpawn == next_pid = KERNEL_PID + 1 /\ \E valid \in BOOLEAN : Spawn(valid)

SemSyscalls ==
    \/ \E key \in Keys, value \in InitVals : SemNew(key, value)
    \/ \E key \in Keys : SemRemove(key)
    \/ \E key \in Keys : SemWait(key) /\ UNCHANGED userVars
    \/ \E key \in Keys : SemSignal(key) /\ UNCHANGED userVars

\* One spawned process and the processes forked from it, which share its
\* semaphore set.
NextSem ==
    \/ Tick
    \/ BootSpawn
    \/ Fork
    \/ \E ret \in Rets : Exit(ret)
    \/ \E pid \in Pids : WaitPid(pid)
    \/ SemSyscalls

SpecSem == Init /\ [][NextSem]_vars

\* Kernel threads that end through process_exit, next to the user processes.
NextExit == Next \/ SpawnKernelThread \/ \E ret \in Rets : ProcessExit(ret)

SpecExit == Init /\ [][NextExit]_vars

\* sys_brk -> Heap::brk on the heap of the calling process
Brk(addr) ==
    /\ LET r == brk(addr, heap_end, heap_mapped, free_frames)
       IN /\ heap_end' = r.end
          /\ heap_mapped' = r.mapped
          /\ free_frames' = r.frames
          /\ brk_ret' = r.ret
    /\ brk_arg' = addr
    /\ UNCHANGED <<procVars, stackVars, pfVars, vsVars, userVars, initVars, kVars, callVars>>

\* ProcessManager::kill applied to any pid.
NextKill == NextExit \/ \E pid \in Pids, ret \in Rets : Kill(pid, ret)

SpecKill == Init /\ [][NextKill]_vars

\* A process that follows the critical-section protocol on semaphore key:
\* sem_wait before it enters, sem_signal when it leaves.
Enter(key) ==
    /\ UserRunning
    /\ pc[current_pid] = "out"
    /\ key \in DOMAIN semaphores[CurSems]
    /\ SemWait(key)
    /\ pc' = [pc EXCEPT ![current_pid] =
                 IF SemWaitKey(semaphores[CurSems], key, current_pid).res = "Block"
                 THEN "wait" ELSE "in"]
    /\ UNCHANGED bolt

Leave(key) ==
    /\ UserRunning
    /\ pc[current_pid] \in {"wait", "in"}
    /\ SemSignal(key)
    /\ pc' = [pc EXCEPT ![current_pid] = "out"]
    /\ UNCHANGED bolt

\* The semaphore starts at 1; processes fork outside the critical section.
NextMutex ==
    \/ Tick
    \/ BootSpawn
    \/ pc[current_pid] = "out" /\ Fork
    \/ \E key \in Keys : SemNew(key, 1)
    \/ \E key \in Keys : Enter(key)
    \/ \E key \in Keys : Leave(key)

SpecMutex == Init /\ [][NextMutex]_vars

\* Addresses a caller passes to brk: three in every heap page, the first
\* address above the hard end and one below the base.
InPage == {0, 8, PAGE_SIZE - 8}

HeapAddrs ==
    {p * PAGE_SIZE + o : p \in 0..(HEAP_PAGES - 1), o \in InPage}
        \cup {HEAP_END + 8, base - 8}

BrkArgs == {None} \cup {Some(a) : a \in HeapAddrs}

\* Any sequence of brk calls on one heap.
NextHeap == \E addr \in BrkArgs : Brk(addr)

SpecHeap == Init /\ [][NextHeap]_vars

\* The clock interrupt keeps arriving: a tick that is possible is not put off
\* for ever.
\* ---- app/philo/src/main.rs ----
\* pc of a philosopher: the next statement of loop { sleep; hungry(i) }
OnCpu(p) == UserRunning /\ current_pid = p

\* main, lines 16-19: CHOPSTICKS_SEM[i].init(1) for each i, then SERVER.init(1)
MainInit ==
    /\ OnCpu(PhiloMain)
    /\ \E key \in PhiloKeys :
          /\ key \notin DOMAIN semaphores[CurSems]
          /\ \A k \in PhiloKeys : k < key => k \in DOMAIN semaphores[CurSems]
          /\ SemNew(key, 1)

\* main, lines 21-33: sys_fork() once per philosopher; the child starts its loop
MainFork ==
    /\ OnCpu(PhiloMain)
    /\ PhiloKeys \subseteq DOMAIN semaphores[CurSems]
    /\ ForkTo(PhiloLast)

\* main, lines 35-37: sys_wait_pid(pids[0]); the philosophers never exit
MainJoin ==
    /\ OnCpu(PhiloMain)
    /\ next_pid > PhiloLast
    /\ WaitPid(PhiloMain + 1)

PWait(p, from, key, to) ==
    /\ OnCpu(p)
    /\ pc[p] = from
    /\ SemWait(key)
    /\ pc' = [pc EXCEPT ![p] = to]
    /\ UNCHANGED bolt

PSignal(p, from, key, to) ==
    /\ OnCpu(p)
    /\ pc[p] = from
    /\ SemSignal(key)
    /\ pc' = [pc EXCEPT ![p] = to]
    /\ UNCHANGED bolt

\* hungry, line 43: SERVER.wait()
ServerWait_Skip(p) ==
    /\ OnCpu(p)
    /\ pc[p] = "out"
    /\ pc' = [pc EXCEPT ![p] = "chk1"]
    /\ UNCHANGED bolt
    /\ UNCHANGED <<procVars, vmVars>>

ServerWait(p) == PWait(p, "out", SERVER, "chk1")

\* check, lines 55-60
check(p) ==
    \/ PWait(p, "chk1", LeftOf(p), "chk2")
    \/ PWait(p, "chk2", RightOf(p), "chk3")
    \/ PSignal(p, "chk3", LeftOf(p), "chk4")
    \/ PSignal(p, "chk4", RightOf(p), "get1")

\* hungry, lines 49-50: sleep, then println!("Philo {} have eaten.")
Eaten(p) ==
    /\ OnCpu(p)
    /\ pc[p] = "eat"
    /\ pc' = [pc EXCEPT ![p] = "put1"]
    /\ UNCHANGED bolt
    /\ UNCHANGED <<procVars, vmVars>>

\* hungry, lines 42-53
hungry(p) ==
    \/ ServerWait(p)
    \/ check(p)
    \/ PWait(p, "get1", LeftOf(p), "get2")
    \/ PWait(p, "get2", RightOf(p), "srv")
    \/ PSignal(p, "srv", SERVER, "eat")
    \/ Eaten(p)
    \/ PSignal(p, "put1", LeftOf(p), "put2")
    \/ PSignal(p, "put2", RightOf(p), "out")

PhiloSpawn == next_pid = PhiloMain /\ Spawn(TRUE)

main == MainInit \/ MainFork \/ MainJoin

NextPhilo ==
    \/ Tick
    \/ PhiloSpawn
    \/ main
    \/ \E p \in Philos : hungry(p)

\* fair preemption: the timer keeps ticking, and a process that is given the
\* CPU again and again executes its next statement
SpecPhilo ==
    /\ Init
    /\ [][NextPhilo]_vars
    /\ WF_vars(Tick)
    /\ WF_vars(PhiloSpawn)
    /\ SF_vars(main)
    /\ \A p \in Philos : SF_vars(hungry(p))

\* ---- page fault (proc/mod.rs handle_page_fault -> ProcessManager::handle_page_fault) ----
\* A protection violation is raised on a page that is present, any other
\* fault on a page that is not.
PageFault(addr, err) ==
    /\ ~halted
    /\ processes[current_pid].status = "Running"
    /\ current_pid \in DOMAIN stack_mapped => (err <=> PageOf(addr) \in stack_mapped[current_pid])
    /\ pf_arg' = <<addr, err>>
    /\ IF current_pid \notin DOMAIN stack_segment
          \/ ~is_on_stack(stack_segment[current_pid], addr)
          \/ err
       THEN /\ pf_ret' = Some(FALSE)
            /\ UNCHANGED <<stackVars, halted>>
       ELSE LET e == enlarge_stack(current_pid, stack_segment[current_pid],
                                   stack_mapped[current_pid], addr)
            IN /\ stack_mapped' = [stack_mapped EXCEPT ![current_pid] = e.mapped]
               /\ stack_segment' = [stack_segment EXCEPT ![current_pid] = e.range]
               /\ UNCHANGED stack_top
               /\ halted' = ~e.ok
               /\ pf_ret' = IF e.ok THEN Some(TRUE) ELSE None
    /\ UNCHANGED <<processes, ready_queue, waiting_processes, current_pid, regs_rax,
                   next_pid, semaphores>>
    /\ UNCHANGED <<heapVars, vsVars, userVars, initVars, kVars, callVars>>

\* user code moves its stack pointer to an address of its mapped stack
SetStackPointer(addr) ==
    /\ UserRunning
    /\ current_pid \in DOMAIN stack_segment
    /\ PageOf(addr) \in stack_segment[current_pid].start..(stack_segment[current_pid].end - 1)
    /\ PageOf(addr) \in stack_mapped[current_pid]
    /\ stack_top' = [stack_top EXCEPT ![current_pid] = addr]
    /\ UNCHANGED <<stack_segment, stack_mapped>>
    /\ UNCHANGED <<procVars, heapVars, pfVars, vsVars, userVars, initVars, kVars, callVars>>

\* addresses a fault can report: both ends of every page of the slots of the
\* pids, of the slot below them and of the first page above STACK_MAX
FaultPages == PageOf(STACK_MAX - (MaxPid + 1) * STACK_MAX_SIZE)..PageOf(STACK_MAX)
FaultAddrs == {start_address(pg) + o : pg \in FaultPages, o \in {0, PAGE_SIZE - 1}}

\* stack pointers user code sets: 8 bytes below the top of a page
StackPointers == {start_address(pg) + PAGE_SIZE - 8 : pg \in FaultPages}

\* one program is spawned, forks, and its processes fault
NextStack ==
    \/ Tick
    \/ BootSpawn
    \/ Fork
    \/ \E addr \in FaultAddrs, err \in BOOLEAN : PageFault(addr, err)
    \/ \E addr \in StackPointers : SetStackPointer(addr)

SpecStack == Init /\ [][NextStack]_vars

\* ---- Stack of proc/vm (stack.rs) ----
\* Stack::grow_stack ; Ok leaves range and usage updated, Err leaves them as
\* they were (the pages mapped before the failure stay mapped), and
\* Page - Page panics when it would be negative
grow_stack_KeepUsage(range, usage, mapped, frames, addr) ==
    LET new_start_page == PageOf(addr)
        page_count == range.start - new_start_page
        m == map_pages(mapped, frames, new_start_page, page_count)
    IN IF new_start_page > range.start
       THEN [res |-> "panic", range |-> range, usage |-> usage, mapped |-> mapped, frames |-> frames]
       ELSE IF ~m.ok
       THEN [res |-> "Err", range |-> range, usage |-> usage, mapped |-> m.mapped, frames |-> m.frames]
       ELSE [res |-> "Ok", range |-> [start |-> new_start_page, end |-> range.end],
             usage |-> usage, mapped |-> m.mapped, frames |-> m.frames]

grow_stack(range, usage, mapped, frames, addr) ==
    LET new_start_page == PageOf(addr)
        page_count == range.start - new_start_page
        m == map_pages(mapped, frames, new_start_page, page_count)
    IN IF new_start_page > range.start
       THEN [res |-> "panic", range |-> range, usage |-> usage, mapped |-> mapped, frames |-> frames]
       ELSE IF ~m.ok
       THEN [res |-> "Err", range |-> range, usage |-> usage, mapped |-> m.mapped, frames |-> m.frames]
       ELSE [res |-> "Ok", range |-> [start |-> new_start_page, end |-> range.end],
             usage |-> range.end - new_start_page, mapped |-> m.mapped, frames |-> m.frames]

\* Stack::handle_page_fault
handle_page_fault(range, usage, mapped, frames, addr) ==
    IF ~is_on_stack(range, addr)
    THEN [res |-> "false", range |-> range, usage |-> usage, mapped |-> mapped, frames |-> frames]
    ELSE LET g == grow_stack(range, usage, mapped, frames, addr)
         IN [g EXCEPT !.res = IF g.res = "Ok" THEN "true"
                               ELSE IF g.res = "Err" THEN "false" ELSE "panic"]

init_AtSlotTop(range, usage, mapped, frames, pid) ==
    LET stack_bottom == STACK_MAX - (pid - 1) * STACK_MAX_SIZE
        m == map_pages(mapped, frames, PageOf(stack_bottom), STACK_DEF_PAGE)
        new_range == [start |-> PageOf(stack_bottom), end |-> PageOf(stack_bottom) + STACK_DEF_PAGE]
    IN [ok |-> m.ok, mapped |-> m.mapped, frames |-> m.frames,
        range |-> IF m.ok THEN new_range ELSE range,
        usage |-> IF m.ok THEN STACK_DEF_PAGE ELSE usage,
        top |-> start_address(new_range.start) + PAGE_SIZE - 8]

\* Stack::init ; map_pages(..).unwrap() panics when the mapping fails
init(range, usage, mapped, frames, pid) ==
    LET stack_bottom == STACK_MAX - (pid - 1) * STACK_MAX_SIZE - STACK_DEF_SIZE
        m == map_pages(mapped, frames, PageOf(stack_bottom), STACK_DEF_PAGE)
        new_range == [start |-> PageOf(stack_bottom), end |-> PageOf(stack_bottom) + STACK_DEF_PAGE]
    IN [ok |-> m.ok, mapped |-> m.mapped, frames |-> m.frames,
        range |-> IF m.ok THEN new_range ELSE range,
        usage |-> IF m.ok THEN STACK_DEF_PAGE ELSE usage,
        top |-> start_address(new_range.start) + PAGE_SIZE - 8]

VsInit(pid) ==
    /\ ~halted
    /\ vs_usage = 0
    /\ LET r == init(vs_range, vs_usage, vs_mapped, vs_frames, pid)
       IN /\ vs_mapped' = r.mapped
          /\ vs_frames' = r.frames
          /\ halted' = ~r.ok
          /\ vs_range' = r.range
          /\ vs_usage' = r.usage
    /\ UNCHANGED <<vs_arg, vs_ret>>
    /\ UNCHANGED <<processes, ready_queue, waiting_processes, current_pid, regs_rax,
                   next_pid, semaphores>>
    /\ UNCHANGED <<heapVars, stackVars, pfVars, userVars, initVars, kVars, callVars>>

VsPageFault(addr) ==
    /\ ~halted
    /\ vs_usage > 0
    /\ LET r == handle_page_fault(vs_range, vs_usage, vs_mapped, vs_frames, addr)
       IN /\ vs_range' = r.range
          /\ vs_usage' = r.usage
          /\ vs_mapped' = r.mapped
          /\ vs_frames' = r.frames
          /\ halted' = (r.res = "panic")
          /\ vs_ret' = IF r.res = "panic" THEN None ELSE Some(r.res = "true")
    /\ vs_arg' = Some(addr)
    /\ UNCHANGED <<processes, ready_queue, waiting_processes, current_pid, regs_rax,
                   next_pid, semaphores>>
    /\ UNCHANGED <<heapVars, stackVars, pfVars, userVars, initVars, kVars, callVars>>

\* Stack::clean_up
VsCleanUp ==
    /\ ~halted
    /\ IF vs_usage = 0
       THEN UNCHANGED <<vs_mapped, vs_frames, vs_usage>>
       ELSE LET u == unmap_pages(vs_mapped, vs_frames, vs_range.start,
                                 vs_range.end - vs_range.start)
            IN /\ vs_mapped' = u.mapped
               /\ vs_frames' = u.frames
               /\ vs_usage' = IF u.ok THEN 0 ELSE vs_usage
    /\ UNCHANGED <<vs_range, vs_arg, vs_ret>>
    /\ UNCHANGED <<procVars, heapVars, stackVars, pfVars, userVars, initVars, kVars, callVars>>

\* the Stack of one user process at a time: initialised in the slot of a pid,
\* grown by page faults, cleaned up when the process is killed
NextVmStack ==
    \/ \E pid \in (KERNEL_PID + 1)..MaxPid : VsInit(pid)
    \/ \E addr \in FaultAddrs : VsPageFault(addr)
    \/ VsCleanUp

SpecVmStack == Init /\ [][NextVmStack]_vars

\* ---- C21 ----
StackBottom(range) == start_address(range.start)

PageCount(range) == range.end - range.start

C21_Step ==
    (next_pid' = next_pid + 1 /\ next_pid \in DOMAIN stack_segment' /\ current_pid \in DOMAIN stack_segment)
    => LET parent == stack_segment[current_pid]
           child == stack_segment'[next_pid]
           sp == stack_top'[next_pid]
       IN /\ PageCount(child) = PageCount(parent)
          /\ PageOf(sp) \in child.start..(child.end - 1)
          /\ PageOf(sp) \in stack_mapped'[next_pid]
          /\ sp - StackBottom(child) = stack_top[current_pid] - StackBottom(parent)

\* C21: after fork, for a parent stack of any size, the child's stack has the
\* parent's page count and the child's saved stack pointer lies inside the
\* child's mapped stack at the parent's offset from the stack bottom
C21_ForkCopiesStack == [][C21_Step]_vars

\* ---- C22 ----
RangePages(range) == range.start..(range.end - 1)

InOneSlot(range) ==
    StackStart(start_address(range.start)) = StackStart(start_address(range.end) - 1)

HasMappedStack(p) ==
    /\ p \in DOMAIN stack_segment
    /\ is_proc_alive(processes, p)
    /\ PageCount(stack_segment[p]) > 0

\* C22: the stack page ranges of any two distinct processes that have a mapped
\* stack at the same time are disjoint, and each lies inside a single slot
C22_StacksDisjointInSlot ==
    \A p, q \in Pids :
        (p # q /\ HasMappedStack(p) /\ HasMappedStack(q))
        => /\ RangePages(stack_segment[p]) \cap RangePages(stack_segment[q]) = {}
           /\ InOneSlot(stack_segment[p])
           /\ InOneSlot(stack_segment[q])

\* ---- the first stack page of every pid ----
MaxPid16 == 65535

\* pids a user process can have: pid 1 is the kernel
InitPids == (KERNEL_PID + 1)..MaxPid16

\* HEAP_START = 0x2000_0000_0000 is half of STACK_MAX = 0x4000_0000_0000
HEAP_START == STACK_MAX \div 2

\* the u64 subtraction of the stack bottom goes below zero
Underflows(pid) == STACK_MAX - (pid - 1) * STACK_MAX_SIZE - STACK_DEF_SIZE < 0

\* ProcessInner::alloc_init_stack(pid) on a page table without stack pages;
\* a subtraction that underflows panics
AllocInitStack ==
    /\ ~halted
    /\ init_pid # None
    /\ alloc_ret = None
    /\ IF Underflows(init_pid[1])
       THEN halted' = TRUE /\ UNCHANGED alloc_ret
       ELSE LET st == alloc_init_stack({}, init_pid[1])
            IN /\ halted' = ~st.ok
               /\ alloc_ret' = IF st.ok
                                THEN Some([bottom |-> start_address(st.range.start),
                                           mapped |-> st.mapped, top |-> st.top])
                                ELSE None
    /\ UNCHANGED <<init_pid, init_ret>>
    /\ UNCHANGED <<processes, ready_queue, waiting_processes, current_pid, regs_rax,
                   next_pid, semaphores>>
    /\ UNCHANGED <<heapVars, stackVars, pfVars, vsVars, userVars, kVars, callVars>>

\* Stack::init(mapper, alloc, pid) of an empty Stack
StackInit ==
    /\ ~halted
    /\ init_pid # None
    /\ init_ret = None
    /\ IF Underflows(init_pid[1])
       THEN halted' = TRUE /\ UNCHANGED init_ret
       ELSE LET r == init(vs_range, 0, {}, MaxFrames, init_pid[1])
            IN /\ halted' = ~r.ok
               /\ init_ret' = IF r.ok
                               THEN Some([bottom |-> start_address(r.range.start),
                                          mapped |-> r.mapped, top |-> r.top])
                               ELSE None
    /\ UNCHANGED <<init_pid, alloc_ret>>
    /\ UNCHANGED <<processes, ready_queue, waiting_processes, current_pid, regs_rax,
                   next_pid, semaphores>>
    /\ UNCHANGED <<heapVars, stackVars, pfVars, vsVars, userVars, kVars, callVars>>

InitSlot == InitState /\ init_pid \in {Some(pid) : pid \in InitPids}

NextSlot == AllocInitStack \/ StackInit

SpecSlot == InitSlot /\ [][NextSlot]_vars

\* ---- C23 ----
\* the 4 GiB slot the stack bottom of a pid lies in
SlotOf(bottom) == [lo |-> StackStart(bottom), hi |-> StackStart(bottom) + STACK_MAX_SIZE]

\* C23: for every pid from 2 to 65535 the stack slot computed for the pid lies
\* inside the stack region [HEAP_START, STACK_MAX), does not intersect the heap
\* region [HEAP_START, HEAP_START + HEAP_SIZE), and the computation of the
\* bottom does not underflow
C23_SlotInRegion ==
    (init_pid # None /\ (alloc_ret # None \/ halted))
    => /\ ~Underflows(init_pid[1])
       /\ alloc_ret # None
          => LET slot == SlotOf(alloc_ret[1].bottom)
             IN /\ HEAP_START <= slot.lo /\ slot.hi <= STACK_MAX
                /\ (slot.hi <= HEAP_START \/ HEAP_START + HEAP_SIZE <= slot.lo)

\* ---- C24 ----
\* what the initialisation of the stack of pid has to give
InitStackOk(ret, pid) ==
    LET bottom == STACK_MAX - (pid - 1) * STACK_MAX_SIZE - STACK_DEF_SIZE
    IN /\ ret.bottom = bottom
       /\ ret.mapped = {PageOf(bottom)}
       /\ ret.top = bottom + 4096 - 8

\* C24: initialising the stack of pid p maps exactly one page whose bottom is
\* STACK_MAX - (p - 1) * STACK_MAX_SIZE - STACK_DEF_SIZE and returns the top
\* bottom + 4096 - 8, and ProcessInner::alloc_init_stack and Stack::init give
\* the same bottom and top for every pid
C24_InitStackAgree ==
    /\ alloc_ret # None => InitStackOk(alloc_ret[1], init_pid[1])
    /\ init_ret # None => InitStackOk(init_ret[1], init_pid[1])
    /\ (alloc_ret # None /\ init_ret # None)
       => /\ alloc_ret[1].bottom = init_ret[1].bottom
          /\ alloc_ret[1].top = init_ret[1].top

C24_Witness ==
    /\ init_pid = Some(MaxPid16 \div 8)
    /\ alloc_ret # None
    /\ init_ret # None
    /\ alloc_ret[1].top = init_ret[1].top

NextFair ==
    \/ Tick
    \/ BootSpawn
    \/ Fork
    \/ \E ret \in Rets : Exit(ret)
    \/ \E pid \in Pids : WaitPid(pid)
    \/ SpawnKernelThread
    \/ \E ret \in Rets : ProcessExit(ret)

SpecFair == Init /\ [][NextFair]_vars /\ WF_vars(Tick)

\* ---- helpers of the properties ----
Range(seq) == {seq[i] : i \in 1..Len(seq)}

Occ(seq, p) == Cardinality({i \in 1..Len(seq) : seq[i] = p})

StatusOf(p) == processes[p].status

RunningPids == {p \in DOMAIN processes : StatusOf(p) = "Running"}

\* number of WaitPid waiter sets that hold p
InWaitSets(p) == Cardinality({t \in DOMAIN waiting_processes : p \in waiting_processes[t]})

\* number of entries of p in all semaphore waiter queues
SemSlots == {<<s, k>> : s \in DOMAIN semaphores, k \in Keys}

InSemQueues(p) ==
    LET slots == {sk \in SemSlots : sk[2] \in DOMAIN semaphores[sk[1]]}
        occ(sk) == Occ(semaphores[sk[1]][sk[2]].waiters, p)
        RECURSIVE Sum(_)
        Sum(S) == IF S = {} THEN 0
                  ELSE LET x == CHOOSE y \in S : TRUE IN occ(x) + Sum(S \ {x})
    IN Sum(slots)

\* C1: at most one process is Running, and a Running process is the current one
C1_OneRunning ==
    /\ Cardinality(RunningPids) <= 1
    /\ \A p \in RunningPids : p = current_pid

C1_Witness ==
    /\ current_pid # KERNEL_PID
    /\ RunningPids = {current_pid}
    /\ StatusOf(KERNEL_PID) = "Ready"
    /\ \E p \in DOMAIN processes : StatusOf(p) \in {"Blocked", "Dead"}

\* C2: every Ready process is exactly once in the ready queue, and the ready
\* queue holds no pid of a Dead or Blocked process
C2_ReadyQueueExact ==
    /\ \A p \in DOMAIN processes : StatusOf(p) = "Ready" => Occ(ready_queue, p) = 1
    /\ \A i \in 1..Len(ready_queue) : StatusOf(ready_queue[i]) \notin {"Dead", "Blocked"}

\* C3: a Blocked process is recorded in exactly one waiter set or semaphore
\* queue, and every recorded pid is Blocked
C3_BlockedRecordedOnce ==
    \A p \in DOMAIN processes :
        /\ StatusOf(p) = "Blocked" => InWaitSets(p) + InSemQueues(p) = 1
        /\ InWaitSets(p) + InSemQueues(p) > 0 => StatusOf(p) = "Blocked"

C3_Witness ==
    \E p, q \in DOMAIN processes :
        /\ p # q
        /\ StatusOf(p) = "Blocked" /\ InWaitSets(p) = 1
        /\ StatusOf(q) = "Blocked" /\ InSemQueues(q) = 1

\* a process that goes from Ready to Running resumes with its saved rax, and the
\* saved rax of a process that stays Ready is not touched
RestoreDelivers ==
    \A p \in DOMAIN processes :
        /\ StatusOf(p) = "Ready" /\ processes'[p].status = "Running"
               => regs_rax' = processes[p].rax
        /\ StatusOf(p) = "Ready" /\ processes'[p].status = "Ready"
               => processes'[p].rax = processes[p].rax

IsForkChild(p, c) == c \in Range(processes[p].children)

\* C4: when a forked child Exits(k) while its parent is blocked in WaitPid on
\* it, the parent is Ready, once in the ready queue and holds k in its saved
\* frame right after the Exit; a WaitPid on an already Dead child returns k at
\* once; the parent resumes with the saved value
C4_Step ==
    /\ \A k \in Rets, p \in DOMAIN processes :
          ( /\ Exit(k)
            /\ IsForkChild(p, current_pid)
            /\ current_pid \in DOMAIN waiting_processes
            /\ p \in waiting_processes[current_pid] )
          => /\ processes'[p].status = "Ready"
             /\ Occ(ready_queue', p) = 1
             /\ processes'[p].rax = k
             /\ processes'[current_pid].exit_code = Some(k)
    /\ \A c \in DOMAIN processes :
          ( /\ WaitPid(c)
            /\ IsForkChild(current_pid, c)
            /\ StatusOf(c) = "Dead" )
          => /\ regs_rax' = processes[c].exit_code[1]
             /\ current_pid' = current_pid
             /\ processes'[current_pid].status = "Running"
    /\ RestoreDelivers

C4_ForkExitWake == [][C4_Step]_vars

C4_Witness ==
    \E p \in DOMAIN processes, c \in DOMAIN processes :
        /\ IsForkChild(p, c)
        /\ StatusOf(c) = "Dead"
        /\ StatusOf(p) = "Running"
        /\ processes[p].rax = processes[c].exit_code[1]
        /\ regs_rax = processes[c].exit_code[1]

\* C5: when a live process becomes Dead, its waiters-map entry is removed and
\* every process that waited on it is Ready with the exit code in its frame
C5_Step ==
    \A t \in DOMAIN processes :
        (StatusOf(t) # "Dead" /\ processes'[t].status = "Dead")
        => /\ t \notin DOMAIN waiting_processes'
           /\ t \in DOMAIN waiting_processes =>
                 \A w \in waiting_processes[t] :
                    /\ processes'[w].status = "Ready"
                    /\ processes'[w].rax = processes'[t].exit_code[1]

C5_DeadWakesWaiters == [][C5_Step]_vars

\* C6: a Dead process stays Dead, is never current again and is never pushed
C6_Step ==
    \A p \in DOMAIN processes :
        StatusOf(p) = "Dead"
        => /\ processes'[p].status = "Dead"
           /\ current_pid' = p => current_pid = p
           /\ Occ(ready_queue', p) <= Occ(ready_queue, p) \/ current_pid = p

C6_DeadIsTerminal == [][C6_Step]_vars

\* C7: a Dead process has an exit code, no page table and no ProcessData, and
\* its pid is in neither the ready queue nor a semaphore waiter queue
C7_DeadHoldsNothing ==
    \A p \in DOMAIN processes :
        StatusOf(p) = "Dead"
        => /\ processes[p].exit_code # None
           /\ ~processes[p].page_table
           /\ ~processes[p].proc_data
           /\ Occ(ready_queue, p) = 0
           /\ InSemQueues(p) = 0

\* C8 (as claimed): the current pid always names a Running process
C8_CurrentIsRunning == StatusOf(current_pid) = "Running"

\* C8 (amended): the current pid names a Running process, except between a
\* kernel thread's process_exit and the next timer tick, when it names that
\* Dead thread and no process is Running
C8_CurrentRunningOrExited ==
    \/ StatusOf(current_pid) = "Running"
    \/ /\ StatusOf(current_pid) = "Dead"
       /\ processes[current_pid].kthread
       /\ current_pid # KERNEL_PID
       /\ RunningPids = {}

C8_Witness ==
    /\ StatusOf(current_pid) = "Dead"
    /\ \E p \in DOMAIN processes : ~processes[p].kthread /\ StatusOf(p) = "Ready"

\* C9: Fork registers exactly one new process with a fresh pid: Ready, ticks 0,
\* no children, no exit code, saved rax 0; the parent's saved rax is the child's
\* pid and its children list gains the child; each resumes with its saved rax
C9_Step ==
    /\ Fork =>
          LET c == next_pid
              p == current_pid
          IN /\ c \notin DOMAIN processes
             /\ c > 0
             /\ DOMAIN processes' = DOMAIN processes \cup {c}
             /\ processes'[c].status = "Ready"
             /\ processes'[c].ticks_passed = 0
             /\ processes'[c].children = <<>>
             /\ processes'[c].exit_code = None
             /\ processes'[c].rax = 0
             /\ processes'[p].rax = c
             /\ processes'[p].children = Append(processes[p].children, c)
    /\ RestoreDelivers

C9_ForkResult == [][C9_Step]_vars

C9_Witness ==
    \E p \in DOMAIN processes, c \in DOMAIN processes :
        /\ IsForkChild(p, c)
        /\ current_pid = c
        /\ StatusOf(c) = "Running"
        /\ processes[c].ticks_passed = 0
        /\ regs_rax = 0
        /\ StatusOf(p) = "Ready"
        /\ processes[p].rax = c

\* the steps that end in switch_next
SwitchStep ==
    \/ Tick
    \/ Fork
    \/ \E ret \in Rets : Exit(ret)
    \/ \E pid \in Pids : is_proc_alive(processes, pid) /\ WaitPid(pid)
    \/ \E key \in Keys :
          /\ UserRunning
          /\ SemWaitKey(semaphores[CurSems], key, current_pid).res = "Block"
          /\ SemWait(key)

\* C10: switch_next makes Running the Ready process that sits earliest in the
\* ready queue; that pid becomes current and leaves the queue, and the other
\* Ready pids keep their order
C10_Step ==
    (SwitchStep /\ ~halted') =>
        LET n == current_pid'
            stays(x) == x # n /\ x \in DOMAIN processes /\ is_ready(processes[x])
        IN /\ processes'[n].status = "Running"
           /\ Occ(ready_queue', n) = 0
           /\ \A i \in 1..Len(ready_queue) :
                 is_ready(processes[ready_queue[i]])
                 => /\ is_ready(processes[n])
                    /\ \E j \in 1..i : ready_queue[j] = n
           /\ SelectSeq(ready_queue', stays) = SelectSeq(ready_queue, stays)

C10_FifoSwitch == [][C10_Step]_vars

C10_Witness ==
    /\ StatusOf(current_pid) = "Running"
    /\ current_pid # KERNEL_PID
    /\ Len(ready_queue) >= 2
    /\ StatusOf(ready_queue[1]) = "Dead"
    /\ StatusOf(ready_queue[2]) = "Ready"
HasStatus(p, st) == IF p \in DOMAIN processes THEN StatusOf(p) = st ELSE FALSE

\* C11: while timer ticks keep arriving (the kernel has not panicked), every
\* Ready process is eventually made Running by switch_next, also when pids of
\* Dead processes sit in the ready queue before it
C11_ReadyEventuallyRuns ==
    \A p \in Pids :
        HasStatus(p, "Ready") ~> (HasStatus(p, "Running") \/ halted)

\* a Ready process waits in the queue behind the pid of a Dead one
C11_Witness ==
    \E i, j \in 1..Len(ready_queue) :
        /\ i < j
        /\ ~is_ready(processes[ready_queue[i]])
        /\ is_ready(processes[ready_queue[j]])
        /\ ~halted

InHeap(x) == x >= base /\ x <= HEAP_END

\* C12: from any heap state reached by brk calls, brk(Some(x)) with x in
\* [base, hard end] and enough free frames returns x, and a following brk(None)
\* returns x
C12_Step ==
    \A x \in HeapAddrs :
        (InHeap(x) /\ free_frames >= HEAP_PAGES /\ Brk(Some(x)))
        => /\ brk_ret' = Some(x)
           /\ brk(None, heap_end', heap_mapped', free_frames').ret = Some(x)

C12_BrkRoundTrip == [][C12_Step]_vars

\* C13: brk(Some(base)) called twice returns base both times and leaves
\* end = base and no heap page mapped
C13_BrkBaseTwice ==
    brk_arg = Some(base) =>
        LET second == brk(Some(base), heap_end, heap_mapped, free_frames)
        IN /\ brk_ret = Some(base)
           /\ second.ret = Some(base)
           /\ second.end = base
           /\ second.mapped = {}

\* C14: a brk call that reports failure leaves the stored heap end as it was
C14_Step ==
    ((\E addr \in BrkArgs : Brk(addr)) /\ brk_ret' = None) => heap_end' = heap_end

InCritical(p) ==
    \/ pc[p] = "in"
    \/ pc[p] = "wait" /\ HasStatus(p, "Running")

\* C15: with a semaphore created with count 1 and processes that enter only
\* after sem_wait returned and signal when they leave, at most one process is
\* inside its critical section, whatever the timer preempts
C15_MutualExclusion == Cardinality({p \in Pids : InCritical(p)}) <= 1

\* one process is inside, preempted, and another one is blocked in sem_wait
C15_Witness ==
    \E p, q \in DOMAIN processes :
        /\ pc[p] = "in"
        /\ StatusOf(p) = "Ready"
        /\ pc[q] = "wait"
        /\ StatusOf(q) = "Blocked"

(* C16: processes blocked on one semaphore are woken first-in first-out:
   a blocking sem_wait appends the caller at the tail of the key's waiter
   queue, and a sem_signal on a key with waiters removes the head of that
   queue, makes it Ready and appends it at the back of the ready queue. *)
C16_Step ==
    \A key \in Keys :
        LET set == semaphores[CurSems] IN
        /\ (/\ UserRunning
            /\ key \in DOMAIN set
            /\ SemWaitKey(set, key, current_pid).res = "Block"
            /\ SemWait(key))
           => semaphores'[CurSems][key].waiters = Append(set[key].waiters, current_pid)
        /\ (/\ UserRunning
            /\ key \in DOMAIN set
            /\ set[key].waiters # <<>>
            /\ SemSignal(key))
           => LET h == Head(set[key].waiters) IN
              /\ semaphores'[CurSems][key].waiters = Tail(set[key].waiters)
              /\ processes'[h].status = "Ready"
              /\ ready_queue' = Append(ready_queue, h)

C17_Step ==
    \A key \in Keys :
        LET set == semaphores[CurSems] IN
        /\ (/\ UserRunning
            /\ key \in DOMAIN set
            /\ SemWaitKey(set, key, current_pid).res = "Ok"
            /\ SemWait(key))
           => regs_rax' = 0
        /\ (/\ UserRunning
            /\ key \in DOMAIN set
            /\ SemSignal(key))
           => /\ regs_rax' = 0
              /\ SemSignalKey(set, key).res = "WakeUp"
                 => processes'[SemSignalKey(set, key).pid].rax = 0

C17_SemReturnsZero == [][C17_Step]_vars

(* C18: the philo program (forked philosophers, one semaphore per
   chopstick, one server semaphore) under fair preemption has no deadlock,
   and every philosopher eventually prints that it has eaten: each
   philosopher reaches the statement after its println again and again. *)
C18_EveryoneEats == \A p \in Philos : []<>(pc[p] = "put1")

C18_Witness ==
    \E p, r \in Philos :
        /\ p # r
        /\ HasStatus(p, "Blocked")
        /\ pc[p] \in {"chk2", "chk3", "get2", "srv"}
        /\ pc[r] \in {"eat", "put1"}

(* C19: handle_page_fault(addr, err) of the process manager returns true
   exactly when addr lies in the current process's stack slot and err is
   not a protection violation; when it returns true, for every process,
   forked ones included, the recorded stack range afterwards is
   [page_of(addr), previous top) and the newly mapped pages are exactly
   [page_of(addr), previous bottom); when it returns false no mapping and no
   stack record changes. *)
C19_Step ==
    (current_pid \in DOMAIN stack_segment /\ pf_arg' # None
        /\ PageFault(pf_arg'[1], pf_arg'[2])) =>
            LET addr == pf_arg'[1]
                err == pf_arg'[2]
                range == stack_segment[current_pid]
                page == PageOf(addr)
            IN /\ pf_ret' = Some(is_on_stack(range, addr) /\ ~err)
               /\ pf_ret' = Some(TRUE) =>
                     /\ stack_segment'[current_pid] = [start |-> page, end |-> range.end]
                     /\ stack_mapped'[current_pid] \ stack_mapped[current_pid]
                            = page..(range.start - 1)
               /\ pf_ret' = Some(FALSE) => UNCHANGED stackVars

C19_PageFaultGrowsStack == [][C19_Step]_vars

BelowBottom(addr) == is_on_stack(vs_range, addr) /\ PageOf(addr) < vs_range.start

(* C20, as stated: Stack::handle_page_fault returns true and extends the
   mapped range down to page_of(addr) for any addr inside the process's slot
   below the current bottom, and returns false without mapping anything for
   any addr outside the slot, slot bottom - 1 included; after every
   successful growth usage equals the number of pages in the range. *)
C20_Step ==
    (vs_arg' # None /\ VsPageFault(vs_arg'[1])) =>
        LET addr == vs_arg'[1] IN
            /\ BelowBottom(addr) =>
                  /\ vs_ret' = Some(TRUE)
                  /\ vs_range' = [start |-> PageOf(addr), end |-> vs_range.end]
                  /\ PageOf(addr)..(vs_range.end - 1) \subseteq vs_mapped'
            /\ ~is_on_stack(vs_range, addr) =>
                  /\ vs_ret' = Some(FALSE)
                  /\ UNCHANGED <<vs_mapped, vs_range, vs_usage>>
            /\ vs_ret' = Some(TRUE) => vs_usage' = vs_range'.end - vs_range'.start

C20_StackGrowth == [][C20_Step]_vars

\* the pages below the bottom down to page_of(addr) can be mapped: the
\* allocator holds a frame for each and none of them is mapped yet
CanGrow(addr) ==
    /\ vs_frames >= vs_range.start - PageOf(addr)
    /\ PageOf(addr)..(vs_range.start - 1) \cap vs_mapped = {}

(* C20, amended: for addr inside the slot below the current bottom,
   Stack::handle_page_fault returns true and extends the mapped range down
   to page_of(addr) when the pages can be mapped, and returns false with the
   range and usage unchanged when they cannot; it returns false without
   mapping anything for addr outside the slot; after every successful
   growth usage equals the number of pages in the range. *)
C20_StepAmended ==
    (vs_arg' # None /\ VsPageFault(vs_arg'[1])) =>
        LET addr == vs_arg'[1] IN
            /\ (BelowBottom(addr) /\ CanGrow(addr)) =>
                  /\ vs_ret' = Some(TRUE)
                  /\ vs_range' = [start |-> PageOf(addr), end |-> vs_range.end]
                  /\ PageOf(addr)..(vs_range.end - 1) \subseteq vs_mapped'
            /\ (BelowBottom(addr) /\ ~CanGrow(addr)) =>
                  /\ vs_ret' = Some(FALSE)
                  /\ UNCHANGED <<vs_range, vs_usage>>
            /\ ~is_on_stack(vs_range, addr) =>
                  /\ vs_ret' = Some(FALSE)
                  /\ UNCHANGED <<vs_mapped, vs_range, vs_usage>>
            /\ vs_ret' = Some(TRUE) => vs_usage' = vs_range'.end - vs_range'.start

C20_StackGrowthWhenMappable == [][C20_StepAmended]_vars

C20_Witness ==
    /\ vs_ret = Some(TRUE)
    /\ vs_arg # None
    /\ PageOf(vs_arg[1]) = vs_range.start
    /\ vs_usage = STACK_DEF_PAGE + 2
    /\ vs_range.start..(vs_range.end - 1) \subseteq vs_mapped

\* ---- C25 ----
\* the current process changes
Suspended == current_pid' # current_pid

\* WaitPid on a live target and SemWait on a semaphore without a free unit
BlockingWait ==
    \/ \E pid \in Pids : is_proc_alive(processes, pid) /\ WaitPid(pid)
    \/ \E key \in Keys :
          /\ UserRunning
          /\ SemWaitKey(semaphores[CurSems], key, current_pid).res = "Block"
          /\ SemWait(key)

\* syscalls that hand the return value to their caller
ReturningSyscall ==
    \/ \E valid \in BOOLEAN : Spawn(valid)
    \/ \E key \in Keys, value \in InitVals : SemNew(key, value)
    \/ \E key \in Keys : SemRemove(key)
    \/ \E key \in Keys : SemSignal(key)
    \/ \E pid \in Pids : ~is_proc_alive(processes, pid) /\ WaitPid(pid)
    \/ \E key \in Keys :
          /\ UserRunning
          /\ SemWaitKey(semaphores[CurSems], key, current_pid).res # "Block"
          /\ SemWait(key)

\* a step that can be a Fork: it allocates a pid or panics
MayBeFork == next_pid' # next_pid \/ halted'

C25_Step ==
    /\ Suspended => (BlockingWait \/ Tick \/ \E ret \in Rets : Exit(ret))
    /\ Suspended => ~ReturningSyscall
    /\ (MayBeFork /\ Fork) => ~Suspended

\* C25: the Running process stops being the current process only inside
\* WaitPid or SemWait when they block, on a timer tick, or by exiting; every
\* other syscall, including Fork, Spawn and Sem signal, returns to its caller
\* without a context switch
C25_SuspensionPoints == [][C25_Step]_vars

C25_StepAmended ==
    /\ Suspended => (BlockingWait \/ Fork \/ Tick \/ \E ret \in Rets : Exit(ret))
    /\ (MayBeFork /\ Fork) => Suspended
    /\ Suspended => ~ReturningSyscall

\* C25 (amended): the Running process stops being the current process only
\* inside WaitPid or SemWait when they block, inside Fork, on a timer tick, or
\* by exiting; Fork always switches away from its caller, and every other
\* syscall, including Spawn and Sem signal, returns to its caller without a
\* context switch
C25_SuspensionPointsWithFork == [][C25_StepAmended]_vars

\* a fork has just queued the child and its caller and switched to another process
C25_Witness ==
    \E p \in DOMAIN processes :
        /\ ~processes[p].kthread
        /\ processes[p].status = "Ready"
        /\ Len(ready_queue) >= 2
        /\ ready_queue[Len(ready_queue)] = p
        /\ IsForkChild(p, ready_queue[Len(ready_queue) - 1])
        /\ processes[p].rax = ready_queue[Len(ready_queue) - 1]
        /\ processes[ready_queue[Len(ready_queue) - 1]].rax = 0
        /\ current_pid # p
        /\ processes[current_pid].status = "Running"

\* ---- interrupt handlers as sequences of lock and interrupt-flag operations ----
cli == <<"without_interrupts">>

sti == <<"restore">>

acq(lock) == <<"acquire", lock>>

rel(lock) == <<"release", lock>>

RECURSIVE Repeat(_, _)
Repeat(ops, n) == IF n = 0 THEN <<>> ELSE ops \o Repeat(ops, n - 1)

without_interrupts_Open(ops) == ops

\* x86_64::instructions::interrupts::without_interrupts(|| ops)
without_interrupts(ops) == <<cli>> \o ops \o <<sti>>

\* a lock taken for one expression and dropped at the end of the statement
locked(lock) == <<acq(lock), rel(lock)>>

\* ProcessManager::get_proc ; current() is get_proc(&get_pid())
get_proc_ops == locked("processes")

push_ready_ops == locked("ready_queue")

add_waiting_ops == locked("waiting_processes")

add_proc_ops == locked("processes")

block_proc_ops == get_proc_ops \o locked("inner")

is_proc_alive_ops == get_proc_ops \o locked("inner")

get_exit_code_ops == get_proc_ops \o locked("inner")

wake_up_ops == get_proc_ops \o locked("inner") \o push_ready_ops

\* wake_waiting keeps the guard of waiting_processes over its loop
wake_waiting_ops(n) ==
    <<acq("waiting_processes")>>
    \o Repeat(get_proc_ops \o locked("inner") \o wake_up_ops, n)
    \o <<rel("waiting_processes")>>

save_current_ops == get_proc_ops \o locked("inner")

\* switch_next puts n entries that are not Ready back before it finds a Ready one
switch_next_ops(n) ==
    locked("ready_queue") \o get_proc_ops
    \o Repeat(locked("inner") \o push_ready_ops \o locked("ready_queue") \o get_proc_ops, n)
    \o locked("inner") \o locked("inner")

\* ProcessManager::kill on a live process: status read, then Process::kill
kill_ops == get_proc_ops \o locked("inner") \o locked("inner")

\* Process::fork keeps the parent's guard while it pauses the child
Process_fork_ops == <<acq("inner"), acq("child inner"), rel("child inner"), rel("inner")>>

\* ProcessManager::fork
manager_fork_ops == get_proc_ops \o Process_fork_ops \o add_proc_ops \o locked("ready_queue")

\* manager.current().write().sem_wait(key, pid) and the other semaphore calls
sem_ops == get_proc_ops \o <<acq("inner"), acq("semaphores"), rel("semaphores"), rel("inner")>>

\* ProcessManager::spawn
manager_spawn_ops ==
    get_proc_ops \o locked("inner") \o locked("inner") \o locked("inner") \o locked("inner")
    \o locked("inner") \o add_proc_ops \o push_ready_ops

\* proc::switch
switch_ops == without_interrupts(save_current_ops \o push_ready_ops \o switch_next_ops(0))

fork_ops ==
    without_interrupts(save_current_ops \o manager_fork_ops \o push_ready_ops \o push_ready_ops
                       \o switch_next_ops(0))

exit_ops(n) == without_interrupts(wake_waiting_ops(n) \o kill_ops \o switch_next_ops(n))

still_alive_ops == without_interrupts(is_proc_alive_ops)

wait_pid_ops(alive) ==
    without_interrupts(
        still_alive_ops \o
        IF alive
        THEN save_current_ops \o block_proc_ops \o add_waiting_ops \o switch_next_ops(1)
        ELSE get_exit_code_ops)

sem_wait_ops(blocks) ==
    without_interrupts(
        sem_ops \o IF blocks THEN save_current_ops \o block_proc_ops \o switch_next_ops(1)
                   ELSE <<>>)

sem_signal_ops(wakes) == without_interrupts(sem_ops \o IF wakes THEN wake_up_ops ELSE <<>>)

elf_spawn_ops == without_interrupts(get_proc_ops \o manager_spawn_ops)

MaxLoop == 1

\* proc::process_exit, called by a kernel thread
process_exit_ops == without_interrupts(kill_ops)

\* interrupt::clock::clock and interrupt::syscall::syscall with each service
Handlers ==
    {[name |-> "clock", n |-> 0]}
    \cup {[name |-> h, n |-> 0] : h \in {"fork", "spawn"}}
    \cup {[name |-> h, n |-> n] : h \in {"exit", "wait_pid", "sem_wait", "sem_signal"},
                                   n \in 0..MaxLoop}

\* services a kernel thread calls without passing an interrupt gate
KernelCalls == {[name |-> h, n |-> 0] : h \in {"kernel spawn", "process_exit"}}

HandlerOps(h) ==
    CASE h.name = "kernel spawn" -> elf_spawn_ops
      [] h.name = "process_exit" -> process_exit_ops
      [] OTHER ->
            without_interrupts(
                CASE h.name = "clock" -> switch_ops
                  [] h.name = "fork" -> fork_ops
                  [] h.name = "spawn" -> elf_spawn_ops
                  [] h.name = "exit" -> exit_ops(h.n)
                  [] h.name = "wait_pid" -> wait_pid_ops(h.n > 0)
                  [] h.name = "sem_wait" -> sem_wait_ops(h.n > 0)
                  [] h.name = "sem_signal" -> sem_signal_ops(h.n > 0))

InHandler == kpath # None /\ kpos <= Len(HandlerOps(kpath[1]))

NextOp == HandlerOps(kpath[1])[kpos]

KUnchanged ==
    UNCHANGED <<procVars, heapVars, stackVars, pfVars, vsVars, initVars, userVars, callVars>>

\* user code raises the syscall interrupt; the handler is entered through an
\* interrupt gate, which clears the interrupt flag
SyscallEnter(h) ==
    /\ kpath = None
    /\ h.name # "clock"
    /\ kpath' = Some(h)
    /\ kpos' = 1
    /\ int_enabled' = FALSE
    /\ UNCHANGED <<held, int_stack, preempted>>
    /\ KUnchanged

\* a kernel thread calls a service of proc directly
KernelCall(h) ==
    /\ kpath = None
    /\ kpath' = Some(h)
    /\ kpos' = 1
    /\ UNCHANGED <<held, int_enabled, int_stack, preempted>>
    /\ KUnchanged

\* the timer interrupt is delivered when the interrupt flag is set: outside
\* the services it enters the clock handler, inside one it preempts it
TimerIrq ==
    /\ int_enabled
    /\ kpath = None \/ (InHandler /\ kpos > 1)
    /\ IF kpath = None
       THEN /\ kpath' = Some([name |-> "clock", n |-> 0])
            /\ kpos' = 1
            /\ int_enabled' = FALSE
            /\ UNCHANGED preempted
       ELSE /\ preempted' = TRUE
            /\ UNCHANGED <<kpath, kpos, int_enabled>>
    /\ UNCHANGED <<held, int_stack>>
    /\ KUnchanged

WithoutInterrupts ==
    /\ InHandler
    /\ NextOp = cli
    /\ int_stack' = Append(int_stack, int_enabled)
    /\ int_enabled' = FALSE
    /\ kpos' = kpos + 1
    /\ UNCHANGED <<kpath, held, preempted>>
    /\ KUnchanged

RestoreInterrupts ==
    /\ InHandler
    /\ NextOp = sti
    /\ int_enabled' = (int_enabled \/ int_stack[Len(int_stack)])
    /\ int_stack' = SubSeq(int_stack, 1, Len(int_stack) - 1)
    /\ kpos' = kpos + 1
    /\ UNCHANGED <<kpath, held, preempted>>
    /\ KUnchanged

Acquire ==
    /\ InHandler
    /\ NextOp[1] = "acquire"
    /\ held' = Append(held, NextOp[2])
    /\ kpos' = kpos + 1
    /\ UNCHANGED <<kpath, int_enabled, int_stack, preempted>>
    /\ KUnchanged

Release ==
    /\ InHandler
    /\ NextOp[1] = "release"
    /\ held' = SelectSeq(held, LAMBDA l : l # NextOp[2])
    /\ kpos' = kpos + 1
    /\ UNCHANGED <<kpath, int_enabled, int_stack, preempted>>
    /\ KUnchanged

\* iretq, or the return to the kernel thread
HandlerReturn ==
    /\ kpath # None
    /\ ~InHandler
    /\ kpath' = None
    /\ kpos' = 1
    /\ int_enabled' = TRUE
    /\ UNCHANGED <<held, int_stack, preempted>>
    /\ KUnchanged

NextHandlers ==
    \/ \E h \in Handlers : SyscallEnter(h)
    \/ \E h \in KernelCalls : KernelCall(h)
    \/ TimerIrq
    \/ WithoutInterrupts
    \/ RestoreInterrupts
    \/ Acquire
    \/ Release
    \/ HandlerReturn

SpecHandlers == Init /\ [][NextHandlers]_vars

\* ---- C26 ----
\* C26: a timer tick does save_current, push_ready and switch_next with
\* interrupts disabled, and so does every syscall service, so that no timer
\* interrupt is delivered between the steps of a tick or of a syscall
C26_NoInterleaving ==
    /\ ~preempted
    /\ (InHandler /\ kpos > 1) => ~int_enabled
    /\ held # <<>> => ~int_enabled

C26_Witness ==
    /\ kpath # None
    /\ kpath[1].name = "kernel spawn"
    /\ int_stack = <<TRUE>>
    /\ held = <<"inner">>
    /\ ~int_enabled

\* ---- C27 ----
LeafLocks == {"ready_queue", "waiting_processes"}

LockRank(lock) ==
    CASE lock = "processes" -> 1
      [] lock \in {"inner", "child inner"} -> 2
      [] lock = "semaphores" -> 3
      [] OTHER -> 4

\* C27: every kernel path acquires locks in the order processes map, then a
\* ProcessInner, then semaphores, and acquires no lock while it holds the
\* ready_queue lock or the waiters-map lock
C27_LockOrder ==
    \A i, j \in 1..Len(held) :
        i < j => /\ held[i] \notin LeafLocks
                 /\ LockRank(held[i]) <= LockRank(held[j])

\* ---- C28 ----
C28_Step ==
    (UserRunning /\ Spawn(FALSE))
    => /\ ~halted'
       /\ regs_rax' = 0
       /\ UNCHANGED <<processes, ready_queue>>

\* C28: a Spawn of a path that cannot be opened or loaded as an ELF returns 0
\* to the calling process, creates no process, leaves the process map and the
\* ready queue unchanged, and the kernel keeps running
C28_SpawnFailureReturnsZero == [][C28_Step]_vars

\* ---- C29 ----
IsDead(pid) == pid \in DOMAIN processes /\ processes[pid].status = "Dead"

C29_Step ==
    /\ \A pid \in Pids :
          (IsDead(pid) /\ WaitPid(pid))
          => /\ regs_rax' = processes[pid].exit_code[1]
             /\ current_pid' = current_pid
             /\ processes'[current_pid].status = "Running"
             /\ ~halted'
             /\ UNCHANGED <<ready_queue, waiting_processes>>
    /\ \A pid \in Pids :
          IsDead(pid)
          => /\ pid \in DOMAIN processes'
             /\ processes'[pid].status = "Dead"
             /\ processes'[pid].exit_code = processes[pid].exit_code

\* C29: WaitPid on a target that is already Dead returns the target's recorded
\* exit code at once, the caller stays Running and current, the ready queue
\* and the waiters map are unchanged; a Dead entry stays in the process map
\* with its exit code, so every later WaitPid on it returns the same code
C29_WaitPidOnDead == [][C29_Step]_vars

\* WaitPid on a Dead target has returned 42 to a caller that never blocked
C29_Witness ==
    \E pid \in Pids :
        /\ IsDead(pid)
        /\ processes[pid].exit_code = Some(42)
        /\ UserRunning
        /\ regs_rax = 42
        /\ processes[current_pid].rax # 42
        /\ pid \notin DOMAIN waiting_processes

\* ---- kill requests next to Exit ----
NextKillReq ==
    \/ Tick
    \/ BootSpawn
    \/ Fork
    \/ \E ret \in Rets : Exit(ret)
    \/ \E pid \in Pids, ret \in Rets : Kill(pid, ret)

SpecKillReq == Init /\ [][NextKillReq]_vars

\* ---- C30 ----
C30_Step ==
    \A pid \in Pids, ret \in Rets :
        ((pid \notin DOMAIN processes \/ IsDead(pid)) /\ Kill(pid, ret))
        => /\ UNCHANGED <<processes, ready_queue, waiting_processes>>
           /\ UNCHANGED <<stack_segment, stack_mapped>>

\* C30: kill(pid, ret) on a pid that is not in the process map or on an
\* already Dead process changes nothing: the recorded exit code, the status,
\* the ready queue and the waiters map are unchanged
C30_KillDeadIsNoOp == [][C30_Step]_vars

\* kill(pid, 42) was applied to a process that had exited with 0
C30_Witness ==
    /\ kill_req # None
    /\ IsDead(kill_req[1][1])
    /\ kill_req[1][2] = 42
    /\ processes[kill_req[1][1]].exit_code = Some(0)

\* ---- pids ----
\* the pids of the process map, and the largest of them
MapPids == DOMAIN processes

(* C31: no two processes share a pid.  Every pid handed out by spawn or fork
   is strictly greater than every pid handed out before, the kernel holds
   pid 1 and user processes get pids from 2 upward, and a pid is never reused
   after its process is Dead: a step that hands out a pid hands out the
   counter's value, which is at least 2, is above every pid of the process
   map and registers exactly that one new entry; no step removes or replaces
   the entry of another pid's creation, the counter never goes down, and the
   only kernel-main entry is pid 1. *)
C31_Step ==
    /\ next_pid' >= next_pid
    /\ MapPids \subseteq MapPids'
    /\ \A p \in MapPids : processes'[p].parent = processes[p].parent
    /\ next_pid' # next_pid =>
          /\ next_pid' = next_pid + 1
          /\ next_pid >= KERNEL_PID + 1
          /\ \A q \in MapPids : q < next_pid
          /\ MapPids' = MapPids \cup {next_pid}
    /\ next_pid' = next_pid => MapPids' = MapPids
    /\ KERNEL_PID \in MapPids' /\ processes'[KERNEL_PID].parent = 0
    /\ \A p \in MapPids' \ {KERNEL_PID} : p >= 2 /\ p < next_pid'

C31_PidsUnique == [][C31_Step]_vars

\* a process was spawned, died, and a later process got a greater pid
C31_Witness ==
    \E d \in MapPids, p \in MapPids :
        /\ d >= 2 /\ p > d
        /\ processes[d].status = "Dead"
        /\ processes[p].status # "Dead"
        /\ next_pid = p + 1

\* ---- frames of an exiting process ----
\* the heap's owner exits: its heap is released with Heap::clean_up
HeapCleanUp ==
    /\ ~heap_cleaned
    /\ LET c == clean_up(heap_end, heap_mapped, free_frames)
       IN /\ heap_end' = c.end
          /\ heap_mapped' = c.mapped
          /\ free_frames' = c.frames
    /\ heap_cleaned' = TRUE
    /\ UNCHANGED <<brk_arg, brk_ret, kill_req>>
    /\ UNCHANGED <<procVars, stackVars, pfVars, vsVars, userVars, initVars, kVars>>

\* Any sequence of brk calls of one process, then its exit.
NextFrames ==
    \/ ~heap_cleaned /\ \E addr \in BrkArgs : Brk(addr)
    \/ HeapCleanUp

SpecFrames == Init /\ [][NextFrames]_vars

(* C32: no frame is leaked.  Once a process is Dead every frame that was
   mapped for it is back with the frame allocator: after the exit of the
   heap's owner no heap page is mapped and the allocator holds every frame it
   held at the start. *)
C32_NoFrameLeak ==
    heap_cleaned => (heap_mapped = {} /\ free_frames = MaxFrames)

\* ---- the heap's mapped pages ----
\* the heap pages that hold a byte of [from, to)
BytePages(from, to) == {p \in 0..(HEAP_PAGES - 1) : p * PAGE_SIZE < to /\ (p + 1) * PAGE_SIZE > from}

\* mapped is one run of pages that starts at base and covers [base, end)
ContiguousFromBase(end, mapped) ==
    \E k \in 0..HEAP_PAGES :
        /\ mapped = {p \in 0..(HEAP_PAGES - 1) : p < k}
        /\ BytePages(base, end) \subseteq mapped

\* the pages the grow branch of Heap::brk hands to elf::map_pages
GrowRun(new_end, end) ==
    LET upper_bound == ((end + 8) \div PAGE_SIZE) * PAGE_SIZE
        new_upper_bound == (PageOf(new_end) + 1) * PAGE_SIZE
    IN IF InHeap(new_end) /\ new_end # base /\ new_upper_bound > upper_bound
       THEN PageOf(upper_bound)..(PageOf(new_upper_bound) - 1)
       ELSE {}

(* C33: after any sequence of brk calls (grow, shrink, reset) the mapped heap
   pages are exactly one contiguous run starting at base that covers every
   byte of [base, end); brk never leaves a page mapped above that run and
   never tries to map a page that is already mapped; growing by k pages from
   the current end e, with frames left, makes every byte of [e, e + k x 4096)
   accessible and returns e + k x 4096, and shrinking back to e afterwards
   succeeds and returns e. *)
C33_Step ==
    \A a \in HeapAddrs :
        Brk(Some(a)) =>
            /\ ContiguousFromBase(heap_end', heap_mapped')
            /\ GrowRun(a, heap_end) \cap heap_mapped = {}
            /\ (/\ InHeap(a)
                /\ a > heap_end
                /\ (a - heap_end) % PAGE_SIZE = 0
                /\ free_frames >= HEAP_PAGES)
               => /\ brk_ret' = Some(a)
                  /\ BytePages(heap_end, a) \subseteq heap_mapped'
                  /\ brk(Some(heap_end), heap_end', heap_mapped', free_frames').ret
                         = Some(heap_end)

C33_HeapContiguous == [][C33_Step]_vars

(* C34: spawn registers exactly one new process in the process map with
   status Ready, appends its pid once at the tail of the ready queue, records
   the caller as its parent and gives it fresh ProcessData (a semaphore set of
   its own, empty), and leaves the caller Running and current with the status
   of every other process unchanged. *)
C34_Step ==
    (next_pid' # next_pid /\ ~halted' /\ \E valid \in BOOLEAN : Spawn(valid))
    => LET pid == next_pid
       IN /\ pid \notin DOMAIN processes
          /\ DOMAIN processes' = DOMAIN processes \cup {pid}
          /\ processes'[pid].status = "Ready"
          /\ processes'[pid].parent = current_pid
          /\ processes'[pid].proc_data
          /\ \A p \in DOMAIN processes : processes[p].sems # processes'[pid].sems
          /\ semaphores'[processes'[pid].sems] = <<>>
          /\ ready_queue' = Append(ready_queue, pid)
          /\ Occ(ready_queue', pid) = 1
          /\ current_pid' = current_pid
          /\ processes'[current_pid].status = "Running"
          /\ \A p \in DOMAIN processes : processes'[p].status = processes[p].status

C34_SpawnEffect == [][C34_Step]_vars

\* a user process spawned a process that is now the last of the ready queue
C34_Witness ==
    \E pid \in DOMAIN processes :
        /\ processes[pid].parent = current_pid
        /\ current_pid # KERNEL_PID
        /\ ~processes[pid].kthread
        /\ processes[pid].children = <<>>
        /\ processes[current_pid].children = <<>>
        /\ regs_rax = pid
        /\ next_pid = pid + 1
        /\ ready_queue # <<>>
        /\ ready_queue[Len(ready_queue)] = pid
        /\ processes[pid].sems # processes[current_pid].sems

\* ---- semaphore counts and waiter queues ----
\* the waiter queue of a semaphore agrees with its count
WaitersMatchCount(sem) ==
    /\ sem.count < 0 =>
          /\ Len(sem.waiters) = -sem.count
          /\ Cardinality(Range(sem.waiters)) = Len(sem.waiters)
    /\ sem.count >= 0 => sem.waiters = <<>>

AllWaitersMatch(S) ==
    \A id \in DOMAIN S : \A key \in DOMAIN S[id] : WaitersMatchCount(S[id][key])

\* the key is absent from the caller's semaphore set
AbsentKey(key) == UserRunning /\ key \notin DOMAIN semaphores[CurSems]

(* C35: for every semaphore, in every reachable state: if its count is
   negative the waiter queue holds exactly -count distinct pids, and if its
   count is zero or positive the waiter queue is empty; sem_wait and
   sem_signal on an absent key change no semaphore and no process status and
   return 1. *)
C35_Step ==
    /\ AllWaitersMatch(semaphores)
    /\ AllWaitersMatch(semaphores')
    /\ \A key \in Keys :
          (AbsentKey(key) /\ (SemWait(key) \/ SemSignal(key)))
          => /\ semaphores' = semaphores
             /\ \A p \in DOMAIN processes : processes'[p].status = processes[p].status
             /\ DOMAIN processes' = DOMAIN processes
             /\ regs_rax' = 1
             /\ current_pid' = current_pid

C35_SemCountWaiters == [][C35_Step]_vars

\* two processes wait on one semaphore whose count is -2
C35_Witness ==
    \E id \in DOMAIN semaphores : \E key \in DOMAIN semaphores[id] :
        /\ semaphores[id][key].count = -2
        /\ Len(semaphores[id][key].waiters) = 2
        /\ \A i \in 1..2 : processes[semaphores[id][key].waiters[i]].status = "Blocked"

\* ---- the scheduler under every way of leaving the CPU ----
\* Timer ticks, spawn, fork, exit, wait_pid, the semaphore calls, kernel
\* threads and process_exit; the kernel's main thread (pid 1) makes no
\* blocking call and does not exit.
NextSched ==
    \/ Tick
    \/ BootSpawn
    \/ Fork
    \/ Exit(0)
    \/ \E pid \in Pids : WaitPid(pid)
    \/ \E key \in Keys : SemNew(key, 0)
    \/ \E key \in Keys : SemWait(key) /\ UNCHANGED userVars
    \/ SpawnKernelThread
    \/ ProcessExit(0)

SpecSched == Init /\ [][NextSched]_vars

\* the steps that stop the kernel before any switch_next call: a wait_pid on
\* a pid that is not in the process map, a spawn that fails, a fork whose
\* child stack cannot be mapped
PanicsBeforeSwitch ==
    \/ \E pid \in Pids : pid \notin DOMAIN processes /\ WaitPid(pid)
    \/ Spawn(FALSE)
    \/ /\ UserRunning
       /\ ~init_child_stack(current_pid, Len(processes[current_pid].children),
                            stack_segment[current_pid], stack_mapped[current_pid]).ok
       /\ Fork

(* C36: every call of switch_next terminates with a Ready process selected.
   In every state reachable through timer ticks, Fork, Exit, WaitPid, SemWait
   and process_exit (the kernel process pid 1 never blocks or exits) the ready
   queue is non-empty at each pop and holds at least one pid whose process is
   Ready, so the pop never fails and the skip loop does not spin for ever: no
   step stops the kernel inside switch_next. *)
C36_Step ==
    (~halted /\ halted') => PanicsBeforeSwitch

C36_SwitchNextFinds == [][C36_Step]_vars

\* a user process was switched in while the ready queue holds the pid of a
\* Dead process next to the kernel's
C36_Witness ==
    /\ UserRunning
    /\ \E i \in 1..Len(ready_queue) : processes[ready_queue[i]].status = "Dead"
    /\ is_ready(processes[KERNEL_PID])
    /\ Occ(ready_queue, KERNEL_PID) = 1

\* ---- semaphore sets across fork and spawn ----
\* User processes that spawn and fork, and their semaphore calls.
NextShare ==
    \/ Tick
    \/ \E valid \in BOOLEAN : Spawn(valid)
    \/ Fork
    \/ SemSyscalls

SpecShare == Init /\ [][NextShare]_vars

\* the semaphore sets the processes of P hold
SetsOf(P) == {P[p].sems : p \in DOMAIN P}

(* C37: a semaphore created by a process before Fork is one shared semaphore
   for parent and child: the child holds the parent's semaphore set, so both
   see the same count, and a sem_wait by one of them that blocks is woken by
   a sem_signal of the other on the same key; a process created by Spawn
   starts with its own empty semaphore set and cannot reach its parent's
   keys (sem_wait and sem_signal on them report NotExist). *)
C37_Step ==
    /\ \A p \in DOMAIN processes : processes'[p].sems = processes[p].sems
    /\ (next_pid' # next_pid /\ ~halted' /\ Fork)
       => /\ processes'[next_pid].sems = processes[current_pid].sems
          /\ semaphores' = semaphores
    /\ (next_pid' # next_pid /\ ~halted' /\ \E valid \in BOOLEAN : Spawn(valid))
       => LET s == processes'[next_pid].sems
          IN /\ s \notin SetsOf(processes)
             /\ semaphores'[s] = <<>>
             /\ \A p \in DOMAIN processes :
                   semaphores'[processes[p].sems] = semaphores[processes[p].sems]
             /\ \A key \in Keys :
                   /\ SemWaitKey(semaphores'[s], key, next_pid).res = "NotExist"
                   /\ SemSignalKey(semaphores'[s], key).res = "NotExist"
    /\ \A key \in Keys :
          (/\ UserRunning
           /\ key \in DOMAIN semaphores[CurSems]
           /\ semaphores[CurSems][key].waiters # <<>>
           /\ SemSignal(key))
          => LET w == Head(semaphores[CurSems][key].waiters)
             IN /\ w # current_pid
                /\ processes[w].sems = CurSems
                /\ processes[w].status = "Blocked"
                /\ processes'[w].status = "Ready"
                /\ Occ(ready_queue', w) = Occ(ready_queue, w) + 1

C37_ForkSharesSemaphores == [][C37_Step]_vars

\* a process that blocked in sem_wait was woken by the sem_signal of the
\* process it shares the semaphore with through fork
C37_Witness ==
    /\ UserRunning
    /\ regs_rax = SYS_SEM
    /\ \E w \in DOMAIN processes : \E key \in DOMAIN semaphores[CurSems] :
          /\ w # current_pid
          /\ processes[w].sems = CurSems
          /\ IsForkChild(current_pid, w) \/ IsForkChild(w, current_pid)
          /\ processes[w].status = "Ready"
          /\ processes[w].rax = SYS_SEM
          /\ Occ(ready_queue, w) = 1
          /\ semaphores[CurSems][key].count = 0
          /\ semaphores[CurSems][key].waiters = <<>>

(* C38: WaitPid on a pid that was never allocated (absent from the process
   map) does not block the caller and does not stop the kernel: the call
   completes and the caller keeps running, with the ready queue and the
   waiters map unchanged. *)
C38_Step ==
    \A pid \in Pids :
        (pid \notin DOMAIN processes /\ WaitPid(pid))
        => /\ ~halted'
           /\ current_pid' = current_pid
           /\ processes'[current_pid].status = "Running"
           /\ ready_queue' = ready_queue
           /\ waiting_processes' = waiting_processes

C38_WaitPidOnAbsent == [][C38_Step]_vars

\* ---- SpinLock (lib/src/sync.rs) ----
\* pc of a process that uses the lock: "out" outside acquire and release,
\* "cas" before the compare_exchange of acquire's loop, "spin" before its
\* spin_loop(), "held" after acquire returned
SpinPids == Pids \ {KERNEL_PID}

\* an exchange that does not compare
compare_exchange_Blind(value, current, new) == [ok |-> TRUE, value |-> new]

\* AtomicBool::compare_exchange(current, new, SeqCst, SeqCst), one atomic step
compare_exchange(value, current, new) ==
    IF value = current THEN [ok |-> TRUE, value |-> new]
    ELSE [ok |-> FALSE, value |-> value]

\* a process calls acquire
AcquireCall(p) ==
    /\ OnCpu(p)
    /\ pc[p] = "out"
    /\ pc' = [pc EXCEPT ![p] = "cas"]
    /\ UNCHANGED <<bolt, procVars, vmVars>>

\* SpinLock::acquire: one turn of the loop
acquire(p) ==
    /\ OnCpu(p)
    /\ \/ /\ pc[p] = "cas"
          /\ LET r == compare_exchange(bolt, FALSE, TRUE)
             IN /\ bolt' = r.value
                /\ pc' = [pc EXCEPT ![p] = IF r.ok THEN "held" ELSE "spin"]
       \/ /\ pc[p] = "spin"
          /\ pc' = [pc EXCEPT ![p] = "cas"]
          /\ UNCHANGED bolt
    /\ UNCHANGED <<procVars, vmVars>>

\* SpinLock::release
release(p) ==
    /\ OnCpu(p)
    /\ pc[p] = "held"
    /\ bolt' = FALSE
    /\ pc' = [pc EXCEPT ![p] = "out"]
    /\ UNCHANGED <<procVars, vmVars>>

\* the processes are the first spawned process and its forks
SpinSpawn == next_pid = KERNEL_PID + 1 /\ Spawn(TRUE)

SpinFork == UserRunning /\ pc[current_pid] = "out" /\ Fork

\* a process that is outside acquire and release exits
SpinExit == UserRunning /\ pc[current_pid] = "out" /\ \E ret \in Rets : Exit(ret)

NextSpin ==
    \/ Tick
    \/ SpinSpawn
    \/ SpinFork
    \/ SpinExit
    \/ \E p \in SpinPids : AcquireCall(p)
    \/ \E p \in SpinPids : acquire(p)
    \/ \E p \in SpinPids : release(p)

\* fair preemption: the timer keeps ticking, a process that is given the CPU
\* again and again executes the next statement of acquire or release; nothing
\* makes a process call acquire
SpecSpin ==
    /\ Init
    /\ [][NextSpin]_vars
    /\ WF_vars(Tick)
    /\ \A p \in SpinPids : SF_vars(acquire(p))
    /\ \A p \in SpinPids : SF_vars(release(p))

Holds(p) == pc[p] = "held"

Spinning(p) == pc[p] \in {"cas", "spin"}

MutualExclusion ==
    /\ \A p, q \in SpinPids : (Holds(p) /\ Holds(q)) => p = q
    /\ (\E p \in SpinPids : Holds(p)) => bolt

(* C39, as stated: the SpinLock gives mutual exclusion under preemption:
   between an acquire returning in one process and that process's release no
   acquire on the same lock returns in any other process; and, the holder
   releasing, a process spinning in acquire eventually gets the lock under
   fair scheduling. *)
C39_SpinLock ==
    /\ []MutualExclusion
    /\ \A p \in SpinPids : Spinning(p) ~> (Holds(p) \/ halted)

\* from some point on no process other than p is inside acquire or holds the
\* lock again
OthersStayOut(p) == <>[](\A q \in SpinPids \ {p} : pc[q] = "out")

(* C39, amended: mutual exclusion as above; a process spinning in acquire
   eventually gets the lock under fair scheduling when the other processes
   eventually stop taking the lock.  A process that releases and acquires
   again can take the lock every time before the spinning process runs its
   compare_exchange. *)
C39_SpinLockNoBarging ==
    /\ []MutualExclusion
    /\ \A p \in SpinPids : OthersStayOut(p) => (Spinning(p) ~> (Holds(p) \/ halted))

\* a process was preempted while it held the lock and another one is spinning
C39_Witness ==
    \E p, q \in SpinPids :
        /\ Holds(p)
        /\ pc[q] = "spin"
        /\ OnCpu(q)
        /\ bolt

\* ---- new_stack_test_thread and wait (kernel/src/utils/mod.rs) ----
\* pc of the kernel's main thread: "out" before the call of wait, "wait" at
\* the head of wait's loop, "hlt" at its hlt, "done" after wait returned
StackThread == KERNEL_PID + 1

KernelOnCpu ==
    /\ ~halted
    /\ current_pid = KERNEL_PID
    /\ processes[KERNEL_PID].status = "Running"

\* new_stack_test_thread, line 38: the stack thread is the first process made
new_stack_test_thread ==
    /\ KernelOnCpu
    /\ pc[KERNEL_PID] = "out"
    /\ next_pid = StackThread
    /\ SpawnKernelThread

\* new_stack_test_thread, line 41: wait(pid)
WaitCall ==
    /\ KernelOnCpu
    /\ pc[KERNEL_PID] = "out"
    /\ StackThread \in DOMAIN processes
    /\ pc' = [pc EXCEPT ![KERNEL_PID] = "wait"]
    /\ UNCHANGED <<bolt, procVars, vmVars>>

\* wait, lines 46-54: one turn of the loop up to the hlt or the break
wait ==
    /\ KernelOnCpu
    /\ pc[KERNEL_PID] = "wait"
    /\ LET exit_code == get_exit_code(processes, StackThread)
       IN pc' = [pc EXCEPT ![KERNEL_PID] = IF exit_code # None THEN "hlt" ELSE "done"]
    /\ UNCHANGED <<bolt, procVars, vmVars>>

\* wait, line 51: hlt returns after the next interrupt, with the thread on the
\* CPU again
hlt ==
    /\ KernelOnCpu
    /\ pc[KERNEL_PID] = "hlt"
    /\ pc' = [pc EXCEPT ![KERNEL_PID] = "wait"]
    /\ UNCHANGED <<bolt, procVars, vmVars>>

\* new_test_thread: further kernel threads, made after wait returned
new_test_thread ==
    /\ pc[KERNEL_PID] = "done"
    /\ SpawnKernelThread

\* the kernel's main thread goes on to spawn a user program
KernelSpawn ==
    /\ KernelOnCpu
    /\ pc[KERNEL_PID] = "done"
    /\ Spawn(TRUE)

\* the kernel threads run and end through process_exit, user programs exit
NextWait ==
    \/ Tick
    \/ new_stack_test_thread
    \/ WaitCall
    \/ wait
    \/ hlt
    \/ new_test_thread
    \/ KernelSpawn
    \/ \E ret \in Rets : Exit(ret)
    \/ \E ret \in Rets : ProcessExit(ret)

SpecWait == Init /\ [][NextWait]_vars

(* C40: the helper wait(pid) used by new_stack_test_thread to wait for the
   spawned process to exit returns only after process pid has an exit code
   (is Dead); it keeps halting while the process is still alive. *)
C40_Step ==
    /\ pc'[KERNEL_PID] = "done" =>
          /\ processes'[StackThread].status = "Dead"
          /\ get_exit_code(processes', StackThread) # None
    /\ (is_proc_alive(processes, StackThread) /\ wait) => pc'[KERNEL_PID] = "hlt"

C40_WaitReturnsAfterExit == [][C40_Step]_vars

====
